---------------------------- MODULE Spec2Model ----------------------------
(***************************************************************************)
(* Model of the dynamic cloud-provider form script, version 5              *)
(* (src/js_dynamic_g_form_current.js): the form builder initializeFormV5,  *)
(* a respondent walking the built form, and the submission handler         *)
(* onFormSubmitV5 with saveSubmissionV5.                                   *)
(*                                                                         *)
(* Strings are sequences of tokens (a token is a word, a digit group, one  *)
(* blank " " or one punctuation mark), so that concatenation, includes,    *)
(* replace, trim and join are computed, not assumed.                       *)
(***************************************************************************)
EXTENDS Integers, Sequences, FiniteSets, TLC

VARIABLES
    sheets,      \* the spreadsheet: sequence of tabs [name, rows]
    form,        \* the form surface: sequence of items, in form order
    builds,      \* number of initializeFormV5 runs so far
    lastInit,    \* what the last initializeFormV5 run met and returned
    walk,        \* the respondent's position in the form and answers so far
    pending,     \* submit events delivered and not yet handled (at most one)
    submits,     \* number of responses submitted so far
    lastSubmit   \* what the last onFormSubmitV5 run took, wrote and returned

vars == <<sheets, form, builds, lastInit, walk, pending, submits, lastSubmit>>

---------------------------------------------------------------------------
(* Bounds of the model *)

MaxTabs == 3       \* tabs of a spreadsheet (SpecBuild)
MaxAnswers == 3    \* item responses of a response (SpecSubmit)
MaxBuilds == 2     \* initializeFormV5 runs of a behaviour (Spec)
MaxSubmits == 1    \* submissions of a behaviour (Spec)
MaxNavs == 6       \* navigation answers of one respondent

---------------------------------------------------------------------------
(* Strings *)

SP == " "

Range(s) == {s[i] : i \in 1..Len(s)}

NoDup(s) == \A i, j \in 1..Len(s) : i # j => s[i] # s[j]

\* String.prototype.includes
Includes(s, sub) ==
    \E i \in 0..(Len(s) - Len(sub)) : SubSeq(s, i + 1, i + Len(sub)) = sub

\* String.prototype.replace with a string pattern: the first occurrence only
ReplaceFirst(s, sub, rep) ==
    IF ~Includes(s, sub) THEN s
    ELSE LET i == CHOOSE k \in 0..(Len(s) - Len(sub)) :
                      /\ SubSeq(s, k + 1, k + Len(sub)) = sub
                      /\ \A m \in 0..(k - 1) : SubSeq(s, m + 1, m + Len(sub)) # sub
         IN  SubSeq(s, 1, i) \o rep \o SubSeq(s, i + Len(sub) + 1, Len(s))

RECURSIVE TrimStart(_)
TrimStart(s) == IF s # <<>> /\ Head(s) = SP THEN TrimStart(Tail(s)) ELSE s

RECURSIVE TrimEnd(_)
TrimEnd(s) ==
    IF s # <<>> /\ s[Len(s)] = SP THEN TrimEnd(SubSeq(s, 1, Len(s) - 1)) ELSE s

\* String.prototype.trim
Trim(s) == TrimEnd(TrimStart(s))

LowerTok(t) ==
    CASE t = "Sheet" -> "sheet"
      [] t = "SHEET" -> "sheet"
      [] t = "AWS"   -> "aws"
      [] t = "Azure" -> "azure"
      [] t = "GCP"   -> "gcp"
      [] OTHER       -> t

\* String.prototype.toLowerCase
ToLowerCase(s) == [i \in 1..Len(s) |-> LowerTok(s[i])]

\* Array.prototype.join
RECURSIVE Join(_, _)
Join(list, sep) ==
    IF list = <<>> THEN <<>>
    ELSE IF Len(list) = 1 THEN list[1]
    ELSE list[1] \o sep \o Join(Tail(list), sep)

RECURSIVE SelectSeqOf(_, _)
SelectSeqOf(s, keep) ==
    IF s = <<>> THEN <<>>
    ELSE (IF Head(s) \in keep THEN <<Head(s)>> ELSE <<>>)
         \o SelectSeqOf(Tail(s), keep)

---------------------------------------------------------------------------
(* Labels the script uses *)

TitleFullName == <<"Full", SP, "Name", SP, "of", SP, "a", SP, "Padawan">>
TitleProject  == <<"Project", SP, "Name">>
TitleChoose   == <<"Choose", SP, "Your", SP, "Cloud", SP, "Provider">>
TitleNext     == <<"Next", SP, "step">>
TitleComments == <<"Additional", SP, "Comments", SP, "(Optional)">>
GoToSubmit    == <<"Go", SP, "to", SP, "Submit">>
SuffixTechExp == <<SP, "Technology", SP, "Experience">>
OutputTabName == <<"V5", "_", "Responses">>

HeaderRow ==
    << <<"Timestamp">>, <<"Name">>, <<"Project", SP, "Name">>, <<"Clouds">>,
       <<"Technologies", SP, "Count">>, <<"Technologies">>, <<"Comments">>,
       <<"TechLeadEmail">> >>

---------------------------------------------------------------------------
(* The spreadsheet: tabs, provider detection and technology loading *)

NameAWS    == <<"AWS">>
NameAzure  == <<"Azure">>
NameGCP    == <<"GCP">>
NameSheet1 == <<"Sheet", "1">>

\* Column A of a tab with technologies: padded and blank cells included
ItemsColumn(name) ==
    CASE name = NameAWS   -> << <<"EC2">>, <<>>, <<SP, "S3", SP>> >>
      [] name = NameAzure -> << <<"VM">> >>
      [] name = NameGCP   -> << <<SP>>, <<"GKE">> >>
      [] OTHER            -> << <<"x">> >>

\* Column A of a tab without any technology: blank cells only
BlankColumn == << <<>>, <<SP>> >>

ColumnsOf(name) == {ItemsColumn(name), BlankColumn}

MkTab(name, col) ==
    [name |-> name, rows |-> [i \in 1..Len(col) |-> <<col[i]>>]]

\* The tabs a spreadsheet of the model may hold, in tab order
TabOrder == <<NameAWS, NameSheet1, NameAzure, NameGCP>>

\* All spreadsheets of up to n tabs: tabs of TabOrder, in that order, each
\* with or without technologies
RECURSIVE TabsFrom(_, _)
TabsFrom(k, n) ==
    IF k > Len(TabOrder) \/ n = 0 THEN {<<>>}
    ELSE TabsFrom(k + 1, n) \cup
         {<<MkTab(TabOrder[k], col)>> \o rest :
             col \in ColumnsOf(TabOrder[k]), rest \in TabsFrom(k + 1, n - 1)}

Spreadsheets(n) == TabsFrom(1, n)

\* sheet.getDataRange().getValues().map(row => row[0])
FirstColumn(tab) == [i \in 1..Len(tab.rows) |-> tab.rows[i][1]]

\* .filter(val => val && String(val).trim() !== '')
NonBlankCells(col) == SelectSeq(col, LAMBDA v : v # <<>> /\ Trim(v) # <<>>)

\* Mutant of the name test: only the tabs of linked forms and the default
\* tabs are skipped
IsSystemSheetFormOnly(sheetName) ==
    \/ Includes(sheetName, <<"Form", SP, "Responses">>)
    \/ Includes(ToLowerCase(sheetName), <<"sheet">>)

\* The name test of getAllCloudProvidersFromTabs
IsSystemSheet(sheetName) ==
    \/ Includes(sheetName, <<"Form", SP, "Responses">>)
    \/ Includes(sheetName, <<"Responses">>)
    \/ Includes(sheetName, <<"_">>)
    \/ Includes(ToLowerCase(sheetName), <<"sheet">>)

RECURSIVE ProviderTabs(_)
ProviderTabs(ss) ==
    IF ss = <<>> THEN <<>>
    ELSE (IF /\ ~IsSystemSheet(Head(ss).name)
             /\ Len(Head(ss).rows) > 0
             /\ Len(NonBlankCells(FirstColumn(Head(ss)))) > 0
          THEN <<Head(ss).name>> ELSE <<>>)
         \o ProviderTabs(Tail(ss))

\* getAllCloudProvidersFromTabs: [] when reading the tabs throws
GetAllCloudProvidersFromTabs(ss, throws) ==
    IF throws THEN <<>> ELSE ProviderTabs(ss)

GetSheetByName(ss, sheetName) ==
    SelectSeq(ss, LAMBDA t : t.name = sheetName)

\* loadTechnologiesFromSheet: [] when the tab is missing, empty or unreadable
LoadTechnologiesFromSheet(ss, sheetName, throws) ==
    LET found == GetSheetByName(ss, sheetName)
    IN  IF throws \/ found = <<>> \/ Len(found[1].rows) = 0 THEN <<>>
        ELSE LET cells == NonBlankCells(FirstColumn(found[1]))
             IN  [i \in 1..Len(cells) |-> Trim(cells[i])]

\* Mutant of loadAllCloudTechnologies: providers without technology are
\* inserted as well
RECURSIVE LoadAllCloudTechnologiesKeepEmpty(_, _, _)
LoadAllCloudTechnologiesKeepEmpty(ss, cloudProviders, failing) ==
    IF cloudProviders = <<>> THEN <<>>
    ELSE <<[name |-> Head(cloudProviders),
            technologies |->
                LoadTechnologiesFromSheet(ss, Head(cloudProviders),
                                          Head(cloudProviders) \in failing)]>>
         \o LoadAllCloudTechnologiesKeepEmpty(ss, Tail(cloudProviders), failing)

\* loadAllCloudTechnologies: the object allData as the sequence of its
\* (key, value) pairs in insertion order; providers without technology are
\* not inserted
RECURSIVE LoadAllCloudTechnologies(_, _, _)
LoadAllCloudTechnologies(ss, cloudProviders, failing) ==
    IF cloudProviders = <<>> THEN <<>>
    ELSE LET provider == Head(cloudProviders)
             technologies ==
                 LoadTechnologiesFromSheet(ss, provider, provider \in failing)
         IN  (IF Len(technologies) > 0
              THEN <<[name |-> provider, technologies |-> technologies]>>
              ELSE <<>>)
             \o LoadAllCloudTechnologies(ss, Tail(cloudProviders), failing)

\* Object.keys(allCloudData)
Keys(data) == [i \in 1..Len(data) |-> data[i].name]

---------------------------------------------------------------------------
(* The form surface *)

NullItem == <<0, 0>>

NoTitle == <<>>

\* form.add<Type>Item(): a new item at the end of the form; the builder
\* state st carries the items and the number of items this run created
AddItem(st, gen, type, title, required) ==
    [items |-> Append(st.items,
                      [id |-> <<gen, st.n + 1>>, type |-> type, title |-> title,
                       required |-> required, choices |-> <<>>]),
     n |-> st.n + 1]

LastId(st) == st.items[Len(st.items)].id

\* Mutant of createChoice: the page of the choice is dropped
CreateChoiceNoPage(value, page) == [value |-> value, target |-> NullItem]

\* item.createChoice(value, page) / createChoice(value)
CreateChoice(value, page) == [value |-> value, target |-> page]

\* item.setChoices(choices) / setChoiceValues(values)
SetChoices(items, id, choices) ==
    [i \in 1..Len(items) |->
        IF items[i].id = id THEN [items[i] EXCEPT !.choices = choices]
        ELSE items[i]]

\* clearFormContent: deletes the items in order; a throwing deleteItem ends
\* the loop (failAt = 0: none throws), the error is logged
ClearFormContent(items, failAt) ==
    IF failAt = 0 \/ failAt > Len(items) THEN <<>>
    ELSE SubSeq(items, failAt, Len(items))

\* createWelcomeSection
CreateWelcomeSection(st, gen) ==
    LET s1 == AddItem(st, gen, "SECTION_HEADER", NoTitle, FALSE)
        s2 == AddItem(s1, gen, "TEXT", TitleFullName, TRUE)
    IN  AddItem(s2, gen, "TEXT", TitleProject, TRUE)

\* createCloudProviderSelection: the page break and the provider question
CreateCloudProviderSelection(st, gen) ==
    LET s1 == AddItem(st, gen, "PAGE_BREAK",
                      <<"Cloud", SP, "Provider", SP, "Selection">>, FALSE)
    IN  AddItem(s1, gen, "MULTIPLE_CHOICE", TitleChoose, TRUE)

TechPageTitle(cloudProvider) == cloudProvider \o <<SP, "Technologies">>

TechQuestionTitle(cloudProvider) == cloudProvider \o SuffixTechExp

\* One iteration of the forEach of createCloudTechnologySections; upTo is
\* the number of items added before an add or a setter throws (3: none)
CreateOneSection(st, gen, entry, upTo) ==
    LET s1 == AddItem(st, gen, "PAGE_BREAK", TechPageTitle(entry.name), FALSE)
        s2a == AddItem(s1, gen, "CHECKBOX", TechQuestionTitle(entry.name), FALSE)
        s2 == [s2a EXCEPT !.items =
                  SetChoices(s2a.items, LastId(s2a),
                             [i \in 1..Len(entry.technologies) |->
                                 CreateChoice(entry.technologies[i], NullItem)])]
        s3 == AddItem(s2, gen, "MULTIPLE_CHOICE", TitleNext, TRUE)
    IN  CASE upTo = 0 -> [st |-> st, section |-> <<>>]
          [] upTo = 1 -> [st |-> s1, section |-> <<>>]
          [] upTo = 2 -> [st |-> s2, section |-> <<>>]
          [] OTHER    -> [st |-> s3,
                          section |-> <<[name |-> entry.name,
                                         pageBreak |-> LastId(s1),
                                         nextQuestion |-> LastId(s3)]>>]

\* createCloudTechnologySections: the object cloudSections as the sequence
\* of its entries in insertion order; a throw inside the loop is caught
\* around the whole loop and {} is returned, whatever was inserted before
RECURSIVE SectionsFrom(_, _, _, _, _, _, _)
SectionsFrom(st, gen, data, k, acc, failAt, upTo) ==
    IF k > Len(data) THEN [st |-> st, sections |-> acc]
    ELSE IF k = failAt
         THEN [st |-> CreateOneSection(st, gen, data[k], upTo).st,
               sections |-> <<>>]
         ELSE LET one == CreateOneSection(st, gen, data[k], 3)
              IN  SectionsFrom(one.st, gen, data, k + 1, acc \o one.section,
                               failAt, upTo)

\* Mutant of createCloudTechnologySections: the loop misses the first key
CreateCloudTechnologySectionsFromSecond(st, gen, allCloudData, failAt, upTo) ==
    SectionsFrom(st, gen, allCloudData, 2, <<>>, failAt, upTo)

CreateCloudTechnologySections(st, gen, allCloudData, failAt, upTo) ==
    SectionsFrom(st, gen, allCloudData, 1, <<>>, failAt, upTo)

\* createFinalSubmissionPage: null when an add or a setter throws after
\* upTo items were added (2: none throws)
CreateFinalSubmissionPage(st, gen, upTo) ==
    LET s1 == AddItem(st, gen, "PAGE_BREAK", <<"Feedback", SP, "Complete">>, FALSE)
        s2 == AddItem(s1, gen, "PARAGRAPH_TEXT", TitleComments, FALSE)
    IN  CASE upTo = 0 -> [st |-> st, finalPage |-> NullItem]
          [] upTo = 1 -> [st |-> s1, finalPage |-> NullItem]
          [] OTHER    -> [st |-> s2, finalPage |-> LastId(s1)]

---------------------------------------------------------------------------
(* Navigation wiring *)

\* Mutants of NextStart: every provider is offered; the provider itself is
NextStartFromFirst(idx) == 1

NextStartFromSelf(idx) == idx

\* The first index offered on a provider's "Next step": let j = idx + 1
NextStart(idx) == idx + 1

\* The choices of the "Next step" question of the provider at index idx
NextChoices(cloudSections, idx, finalPage) ==
    LET from == NextStart(idx)
        n    == Len(cloudSections)
    IN  [j \in 1..(n - from + 1) |->
            CreateChoice(cloudSections[from + j - 1].name,
                         cloudSections[from + j - 1].pageBreak)]
        \o <<CreateChoice(GoToSubmit, finalPage)>>

\* Mutant of StartChoices: the skip choice is not pushed
StartChoicesNoSkip(cloudSections, finalPage) ==
    [i \in 1..Len(cloudSections) |->
        CreateChoice(cloudSections[i].name, cloudSections[i].pageBreak)]

\* The choices of the provider-select question
StartChoices(cloudSections, finalPage) ==
    [i \in 1..Len(cloudSections) |->
        CreateChoice(cloudSections[i].name, cloudSections[i].pageBreak)]
    \o <<CreateChoice(GoToSubmit, finalPage)>>

\* providers.forEach((p, idx) => ... nextQ.setChoices(nextChoices)); the
\* setChoices of the provider at index failK throws (0: none throws)
RECURSIVE WireNext(_, _, _, _, _)
WireNext(items, cloudSections, k, finalPage, failK) ==
    IF k > Len(cloudSections) \/ k = failK THEN items
    ELSE WireNext(SetChoices(items, cloudSections[k].nextQuestion,
                             NextChoices(cloudSections, k, finalPage)),
                  cloudSections, k + 1, finalPage, failK)

\* setupConditionalNavigation.  A throw anywhere is caught and logged; what
\* was set before it stays.  createChoice with a null page either throws
\* (onNull = "throws") or yields a choice without navigation ("plain").
\* navAt: 0 none throws, 1 cloudQuestion.setChoices throws, 1 + k the
\* setChoices of provider k throws.
SetupConditionalNavigation(items, cloudQuestion, cloudSections, finalPage, onNull, navAt) ==
    IF finalPage = NullItem /\ onNull = "throws" THEN items
    ELSE IF navAt = 1 THEN items
    ELSE WireNext(SetChoices(items, cloudQuestion,
                             StartChoices(cloudSections, finalPage)),
                  cloudSections, 1, finalPage,
                  IF navAt = 0 THEN 0 ELSE navAt - 1)

---------------------------------------------------------------------------
(* Host failures a run may meet: at most one kind per run *)

NoFault ==
    [connect |-> FALSE, tabs |-> FALSE, load |-> {}, clearAt |-> 0,
     selUpTo |-> 2, sectionAt |-> 0, sectionUpTo |-> 3, finalUpTo |-> 2,
     onNull |-> "throws", navAt |-> 0]

Faults(ss, items) ==
    LET tabs == ProviderTabs(ss)
        n    == Len(LoadAllCloudTechnologies(ss, tabs, {}))
    IN  {NoFault, [NoFault EXCEPT !.connect = TRUE], [NoFault EXCEPT !.tabs = TRUE]}
        \cup {[NoFault EXCEPT !.load = S] : S \in (SUBSET Range(tabs)) \ {{}}}
        \cup {[NoFault EXCEPT !.clearAt = k] : k \in 1..Len(items)}
        \cup {[NoFault EXCEPT !.selUpTo = u] : u \in 0..1}
        \cup {[NoFault EXCEPT !.sectionAt = k, !.sectionUpTo = u] :
                 k \in 1..n, u \in 0..2}
        \cup {[NoFault EXCEPT !.finalUpTo = u, !.onNull = o] :
                 u \in 0..1, o \in {"throws", "plain"}}
        \cup {[NoFault EXCEPT !.navAt = k] : k \in 1..(n + 1)}

\* The failures the life of one form is checked with: none, the form or
\* the spreadsheet cannot be opened, the last deleteItem throws
FewFaults(ss, items) ==
    {NoFault, [NoFault EXCEPT !.connect = TRUE]}
    \cup (IF items = <<>> THEN {} ELSE {[NoFault EXCEPT !.clearAt = Len(items)]})

\* No form or spreadsheet call of the run throws
FaultFree(fault) == fault = NoFault

---------------------------------------------------------------------------
(* The build *)

\* createCompleteFormStructure: rethrows what createCloudProviderSelection
\* throws; every other step catches its own errors
CreateCompleteFormStructure(items, gen, allCloudData, fault) ==
    LET s0  == [items |-> items, n |-> 0]
        s1  == CreateWelcomeSection(s0, gen)
        s2  == CreateCloudProviderSelection(s1, gen)
        cloudQuestion == LastId(s2)
        sec == CreateCloudTechnologySections(s2, gen, allCloudData,
                                             fault.sectionAt, fault.sectionUpTo)
        fin == CreateFinalSubmissionPage(sec.st, gen, fault.finalUpTo)
    IN  IF fault.selUpTo = 0
        THEN [items |-> s1.items, threw |-> TRUE, cloudSections |-> <<>>,
              finalPage |-> NullItem, cloudQuestion |-> NullItem]
        ELSE IF fault.selUpTo = 1
        THEN [items |-> AddItem(s1, gen, "PAGE_BREAK",
                                <<"Cloud", SP, "Provider", SP, "Selection">>,
                                FALSE).items,
              threw |-> TRUE, cloudSections |-> <<>>,
              finalPage |-> NullItem, cloudQuestion |-> NullItem]
        ELSE [items |-> SetupConditionalNavigation(
                            fin.st.items, cloudQuestion, sec.sections,
                            fin.finalPage, fault.onNull, fault.navAt),
              threw |-> FALSE, cloudSections |-> sec.sections,
              finalPage |-> fin.finalPage, cloudQuestion |-> cloudQuestion]

RECURSIVE SumLen(_)
SumLen(data) ==
    IF data = <<>> THEN 0 ELSE Len(Head(data).technologies) + SumLen(Tail(data))

\* Mutant of NoProviders: the check is missing
NoProvidersUnchecked(cloudProviders) == FALSE

\* if (cloudProviders.length === 0) throw ...
NoProviders(cloudProviders) == Len(cloudProviders) = 0

\* Mutant of Failure: the form was cleared before the failure was met
FailureAfterClear(items, error) ==
    [items |-> <<>>, success |-> FALSE, error |-> error,
     cloudProviders |-> <<>>, cloudData |-> <<>>, totalTechnologies |-> 0,
     cloudSections |-> <<>>, finalPage |-> NullItem, cloudQuestion |-> NullItem]

\* catch (error): { success: false, error: error.toString() }; the form is
\* left as the steps before the throw left it
Failure(items, error) ==
    [items |-> items, success |-> FALSE, error |-> error,
     cloudProviders |-> <<>>, cloudData |-> <<>>, totalTechnologies |-> 0,
     cloudSections |-> <<>>, finalPage |-> NullItem, cloudQuestion |-> NullItem]

\* initializeFormV5: the form items it leaves and the object it returns
\* (cloudSections, finalPage and cloudQuestion are its local values)
InitializeFormV5Result(ss, items, gen, fault) ==
    LET cloudProviders == GetAllCloudProvidersFromTabs(ss, fault.tabs)
        allCloudData   == LoadAllCloudTechnologies(ss, cloudProviders, fault.load)
        cleared        == ClearFormContent(items, fault.clearAt)
        built          == CreateCompleteFormStructure(cleared, gen, allCloudData, fault)
    IN  IF fault.connect
        THEN Failure(items, "Exception: cannot open the spreadsheet or the form")
        ELSE IF NoProviders(cloudProviders)
        THEN Failure(items, "Error: No valid cloud provider tabs found in spreadsheet")
        ELSE IF built.threw
        THEN Failure(built.items, "Exception: cannot create the provider question")
        ELSE [items |-> built.items, success |-> TRUE, error |-> "",
              cloudProviders |-> cloudProviders, cloudData |-> allCloudData,
              totalTechnologies |-> SumLen(allCloudData),
              cloudSections |-> built.cloudSections,
              finalPage |-> built.finalPage,
              cloudQuestion |-> built.cloudQuestion]

---------------------------------------------------------------------------
(* Responses *)

\* An answer (itemResponse.getResponse()): a string, an array of strings
\* or nothing
Str(v)  == [t |-> "str", v |-> v]
Arr(v)  == [t |-> "arr", v |-> v]
Null    == [t |-> "null", v |-> <<>>]

\* JavaScript truthiness of an answer: '' and null are falsy, arrays truthy
Truthy(answer) == (answer.t = "str" /\ answer.v # <<>>) \/ answer.t = "arr"

\* String(answer)
StringOf(answer) ==
    IF answer.t = "arr" THEN Join(answer.v, <<",">>) ELSE answer.v

\* answer || ''
OrEmpty(answer) == IF Truthy(answer) THEN StringOf(answer) ELSE <<>>

\* Array.isArray(answer) ? answer : []
ArrayOrEmpty(answer) == IF answer.t = "arr" THEN answer.v ELSE <<>>

\* Mutant of Dedupe: the list is kept as it is
DedupeNothing(list) == list

\* [...new Set(list)]: first occurrences, in order
RECURSIVE Dedupe(_)
Dedupe(list) ==
    IF list = <<>> THEN <<>>
    ELSE LET init == Dedupe(SubSeq(list, 1, Len(list) - 1))
             x    == list[Len(list)]
         IN  IF x \in Range(init) THEN init ELSE Append(init, x)

\* obj[key] = value on an object kept as the sequence of its entries
PutKey(obj, key, value) ==
    IF \E i \in 1..Len(obj) : obj[i].cloud = key
    THEN [i \in 1..Len(obj) |->
             IF obj[i].cloud = key THEN [cloud |-> key, list |-> value] ELSE obj[i]]
    ELSE Append(obj, [cloud |-> key, list |-> value])

\* techByCloud[cloud] || []
GetKey(obj, key) ==
    IF \E i \in 1..Len(obj) : obj[i].cloud = key
    THEN obj[CHOOSE i \in 1..Len(obj) : obj[i].cloud = key].list
    ELSE <<>>

\* questionTitle.replace(' Technology Experience', '').trim()
DecodeCloud(questionTitle) == Trim(ReplaceFirst(questionTitle, SuffixTechExp, <<>>))

\* Mutant of EmptySubmission: the intake fields start undefined
EmptySubmissionUndefined(timestamp, email) ==
    [timestamp |-> timestamp, name |-> <<"undefined">>,
     projectName |-> <<"undefined">>,
     selectedCloudProvider |-> <<>>, technologies |-> <<>>, comments |-> <<>>,
     email |-> email, technologiesCount |-> 0, technologiesSummary |-> <<>>]

\* const submissionData = { ... } and the respondent's email
EmptySubmission(timestamp, email) ==
    [timestamp |-> timestamp, name |-> <<>>, projectName |-> <<>>,
     selectedCloudProvider |-> <<>>, technologies |-> <<>>, comments |-> <<>>,
     email |-> email, technologiesCount |-> 0, technologiesSummary |-> <<>>]

\* Mutant of ProcessItem: an answer under any other title is taken as the
\* comment
ProcessItemCatchAll(d, ir) ==
    LET questionTitle == ir.title
        answer        == ir.answer
    IN  IF questionTitle = TitleFullName
        THEN [d EXCEPT !.name = OrEmpty(answer)]
        ELSE IF questionTitle = TitleProject
        THEN [d EXCEPT !.projectName = OrEmpty(answer)]
        ELSE IF questionTitle = TitleChoose
        THEN IF Truthy(answer)
             THEN [d EXCEPT !.selectedCloudProvider = Append(@, StringOf(answer))]
             ELSE d
        ELSE IF questionTitle = TitleNext
        THEN IF Truthy(answer) /\ (answer.t # "str" \/ answer.v # GoToSubmit)
             THEN [d EXCEPT !.selectedCloudProvider = Append(@, StringOf(answer))]
             ELSE d
        ELSE IF Includes(questionTitle, <<"Technology", SP, "Experience">>)
        THEN [d EXCEPT !.technologies =
                 PutKey(@, DecodeCloud(questionTitle), ArrayOrEmpty(answer))]
        ELSE [d EXCEPT !.comments = OrEmpty(answer)]

\* The body of itemResponses.forEach in onFormSubmitV5
ProcessItem(d, ir) ==
    LET questionTitle == ir.title
        answer        == ir.answer
    IN  IF questionTitle = TitleFullName
        THEN [d EXCEPT !.name = OrEmpty(answer)]
        ELSE IF questionTitle = TitleProject
        THEN [d EXCEPT !.projectName = OrEmpty(answer)]
        ELSE IF questionTitle = TitleChoose
        THEN IF Truthy(answer)
             THEN [d EXCEPT !.selectedCloudProvider = Append(@, StringOf(answer))]
             ELSE d
        ELSE IF questionTitle = TitleNext
        THEN IF Truthy(answer) /\ (answer.t # "str" \/ answer.v # GoToSubmit)
             THEN [d EXCEPT !.selectedCloudProvider = Append(@, StringOf(answer))]
             ELSE d
        ELSE IF Includes(questionTitle, <<"Technology", SP, "Experience">>)
        THEN [d EXCEPT !.technologies =
                 PutKey(@, DecodeCloud(questionTitle), ArrayOrEmpty(answer))]
        ELSE IF Includes(questionTitle, <<"Additional", SP, "Comments">>)
        THEN [d EXCEPT !.comments = OrEmpty(answer)]
        ELSE d

RECURSIVE ProcessItems(_, _)
ProcessItems(d, itemResponses) ==
    IF itemResponses = <<>> THEN d
    ELSE ProcessItems(ProcessItem(d, Head(itemResponses)), Tail(itemResponses))

RECURSIVE TechCount(_)
TechCount(technologies) ==
    IF technologies = <<>> THEN 0
    ELSE Len(Head(technologies).list) + TechCount(Tail(technologies))

RECURSIVE TechParts(_)
TechParts(technologies) ==
    IF technologies = <<>> THEN <<>>
    ELSE (IF Len(Head(technologies).list) > 0
          THEN <<Head(technologies).cloud \o <<":", SP>>
                 \o Join(Head(technologies).list, <<",", SP>>)>>
          ELSE <<>>)
         \o TechParts(Tail(technologies))

\* onFormSubmitV5 up to the call of saveSubmissionV5: the submissionData
SubmissionData(e, timestamp) ==
    LET d == ProcessItems(EmptySubmission(timestamp, e.email), e.items)
    IN  [d EXCEPT !.selectedCloudProvider = Dedupe(d.selectedCloudProvider),
                  !.technologiesCount = TechCount(d.technologies),
                  !.technologiesSummary =
                      Join(TechParts(d.technologies), <<SP, "|", SP>>)]

\* The row saveSubmissionV5 appends for one cloud
CloudRow(d, cloud) ==
    LET techList == GetKey(d.technologies, cloud)
    IN  <<d.timestamp, d.name, d.projectName, cloud, Len(techList),
          Join(techList, <<",", SP>>), d.comments, d.email>>

\* The fallback row of saveSubmissionV5
FallbackRow(d) ==
    <<d.timestamp, d.name, d.projectName, <<>>, 0, <<>>, d.comments, d.email>>

\* Mutant of RowsToAppend: no fallback row
RowsToAppendNoFallback(d) ==
    [i \in 1..Len(d.selectedCloudProvider) |-> CloudRow(d, d.selectedCloudProvider[i])]

\* The rows saveSubmissionV5 sets out to append, in order
RowsToAppend(d) ==
    LET clouds == d.selectedCloudProvider
    IN  IF Len(clouds) = 0 THEN <<FallbackRow(d)>>
        ELSE [i \in 1..Len(clouds) |-> CloudRow(d, clouds[i])]

HasTab(ss, name) == \E i \in 1..Len(ss) : ss[i].name = name

\* Mutant of appendRow: the rows written take the place of the data rows
AppendRowsOverData(ss, name, rows) ==
    [i \in 1..Len(ss) |->
        IF ss[i].name = name
        THEN [ss[i] EXCEPT !.rows = (IF @ = <<>> THEN <<>> ELSE <<Head(@)>>) \o rows]
        ELSE ss[i]]

AppendRows(ss, name, rows) ==
    [i \in 1..Len(ss) |->
        IF ss[i].name = name THEN [ss[i] EXCEPT !.rows = @ \o rows] ELSE ss[i]]

\* Mutant of saveSubmissionV5: the new tab gets no header row
SaveSubmissionV5NoHeader(ss, d, fault) ==
    LET withTab == IF HasTab(ss, OutputTabName) THEN ss
                   ELSE Append(ss, [name |-> OutputTabName, rows |-> <<>>])
        rows    == RowsToAppend(d)
        done    == IF fault.appendAt = 0 \/ fault.appendAt > Len(rows) THEN rows
                   ELSE SubSeq(rows, 1, fault.appendAt - 1)
    IN  IF fault.open THEN ss ELSE AppendRows(withTab, OutputTabName, done)

\* Mutant of saveSubmissionV5: a failing appendRow is tried again
SaveSubmissionV5Retrying(ss, d, fault) ==
    LET withTab == IF HasTab(ss, OutputTabName) THEN ss
                   ELSE Append(ss, [name |-> OutputTabName, rows |-> <<HeaderRow>>])
    IN  IF fault.open THEN ss
        ELSE AppendRows(withTab, OutputTabName, RowsToAppend(d))

\* saveSubmissionV5: the spreadsheet it leaves.  fault.open: openByUrl
\* throws; fault.appendAt = j: the j-th appendRow throws (0: none); the
\* error is caught and logged, rows appended before it stay
SaveSubmissionV5(ss, d, fault) ==
    LET withTab == IF HasTab(ss, OutputTabName) THEN ss
                   ELSE Append(ss, [name |-> OutputTabName, rows |-> <<HeaderRow>>])
        rows    == RowsToAppend(d)
        done    == IF fault.appendAt = 0 \/ fault.appendAt > Len(rows) THEN rows
                   ELSE SubSeq(rows, 1, fault.appendAt - 1)
    IN  IF fault.open THEN ss ELSE AppendRows(withTab, OutputTabName, done)

---------------------------------------------------------------------------
(* The respondent *)

IdleWalk ==
    [at |-> "idle", pos |-> 0, jump |-> NullItem, answers |-> <<>>,
     pages |-> <<>>, navs |-> 0]

HasItem(items, id) == \E i \in 1..Len(items) : items[i].id = id

IndexOf(items, id) == CHOOSE i \in 1..Len(items) : items[i].id = id

\* The respondent is at the end of a page: past the last item, or before
\* the page break that opens the next page
AtPageEnd(w, items) ==
    IF w.pos > Len(items) THEN TRUE ELSE items[w.pos].type = "PAGE_BREAK"

\* What a respondent may enter on a text or checkbox question; "skip"
\* leaves the question unanswered (no item response is recorded)
Entries(item) ==
    CASE item.type = "TEXT" ->
             {Str(<<"Ann">>)} \cup (IF item.required THEN {} ELSE {Null})
      [] item.type = "PARAGRAPH_TEXT" ->
             {Str(<<"ok">>)} \cup (IF item.required THEN {} ELSE {Null})
      [] item.type = "CHECKBOX" ->
             LET values == [i \in 1..Len(item.choices) |-> item.choices[i].value]
             IN  {Arr(<<values[i]>>) : i \in 1..Len(values)}
                 \cup (IF Len(values) > 1 THEN {Arr(values)} ELSE {})
                 \cup (IF item.required THEN {} ELSE {Null})
      [] OTHER -> {}

Record(w, item, answer) ==
    IF answer = Null THEN w.answers
    ELSE Append(w.answers, [title |-> item.title, answer |-> answer])

\* The respondent opens the form on its first page
RespondentOpens ==
    /\ walk.at = "idle"
    /\ form # <<>>
    /\ pending = <<>>
    /\ submits < MaxSubmits
    /\ walk' = [IdleWalk EXCEPT !.at = "form", !.pos = 1]
    /\ UNCHANGED <<sheets, form, builds, lastInit, pending, submits, lastSubmit>>

\* The respondent answers the question in front of them.  A navigation
\* answer (multiple choice) sets where the page leads; a choice without a
\* page leads on to the next page; a question that is not required may be
\* left unanswered
RespondentAnswers ==
    /\ walk.at = "form"
    /\ ~AtPageEnd(walk, form)
    /\ LET item == form[walk.pos]
       IN  \/ /\ item.type = "SECTION_HEADER"
              /\ walk' = [walk EXCEPT !.pos = @ + 1]
           \/ /\ item.type \in {"TEXT", "PARAGRAPH_TEXT", "CHECKBOX"}
              /\ \E a \in Entries(item) :
                    walk' = [walk EXCEPT !.pos = @ + 1,
                                         !.answers = Record(walk, item, a)]
           \/ /\ item.type = "MULTIPLE_CHOICE"
              /\ ~item.required
              /\ walk' = [walk EXCEPT !.pos = @ + 1]
           \/ /\ item.type = "MULTIPLE_CHOICE"
              /\ walk.navs < MaxNavs
              /\ \E i \in 1..Len(item.choices) :
                    walk' = [walk EXCEPT
                                !.pos = @ + 1,
                                !.answers = Record(walk, item, Str(item.choices[i].value)),
                                !.jump = item.choices[i].target,
                                !.navs = @ + 1]
    /\ UNCHANGED <<sheets, form, builds, lastInit, pending, submits, lastSubmit>>

\* The respondent leaves the page: to the page the navigation answer names,
\* else to the next page, else (after the last page) to the submit button
RespondentTurnsPage ==
    /\ walk.at = "form"
    /\ AtPageEnd(walk, form)
    /\ \/ /\ walk.jump # NullItem
          /\ HasItem(form, walk.jump)
          /\ walk' = [walk EXCEPT !.pos = IndexOf(form, walk.jump) + 1,
                                  !.jump = NullItem,
                                  !.pages = Append(@, walk.jump)]
       \/ /\ walk.jump = NullItem
          /\ walk.pos <= Len(form)
          /\ walk' = [walk EXCEPT !.pos = @ + 1,
                                  !.pages = Append(@, form[walk.pos].id)]
       \/ /\ walk.jump = NullItem
          /\ walk.pos > Len(form)
          /\ walk' = [walk EXCEPT !.at = "end"]
    /\ UNCHANGED <<sheets, form, builds, lastInit, pending, submits, lastSubmit>>

\* The respondent submits: the trigger delivers the response once
RespondentSubmits ==
    /\ walk.at = "end"
    /\ pending = <<>>
    /\ pending' = <<[email |-> <<"lead">>, items |-> walk.answers]>>
    /\ walk' = IdleWalk
    /\ submits' = submits + 1
    /\ UNCHANGED <<sheets, form, builds, lastInit, lastSubmit>>

---------------------------------------------------------------------------
(* The two entry points as actions *)

NoInit ==
    [ran |-> FALSE, fault |-> NoFault, success |-> FALSE, error |-> "",
     cloudProviders |-> <<>>, cloudData |-> <<>>, totalTechnologies |-> 0,
     cloudSections |-> <<>>, finalPage |-> NullItem, cloudQuestion |-> NullItem]

\* One run of initializeFormV5 against the current spreadsheet and form
RunInitializeFormV5(faults) ==
    \E fault \in faults :
        \E r \in {InitializeFormV5Result(sheets, form, builds + 1, fault)} :
            /\ form' = r.items
            /\ lastInit' =
                   [ran |-> TRUE, fault |-> fault, success |-> r.success,
                    error |-> r.error, cloudProviders |-> r.cloudProviders,
                    cloudData |-> r.cloudData,
                    totalTechnologies |-> r.totalTechnologies,
                    cloudSections |-> r.cloudSections,
                    finalPage |-> r.finalPage,
                    cloudQuestion |-> r.cloudQuestion]
            /\ builds' = builds + 1
            /\ walk' = IdleWalk
            /\ UNCHANGED <<sheets, pending, submits, lastSubmit>>

\* initializeFormV5 (also through refreshFormV5), any number of times
InitializeFormV5 ==
    /\ builds < MaxBuilds
    /\ RunInitializeFormV5(FewFaults(sheets, form))

\* initializeFormV5 applied once to the spreadsheet and form of Init
InitializeFormV5Once ==
    /\ builds = 0
    /\ RunInitializeFormV5(Faults(sheets, form))

NoSinkFault == [read |-> FALSE, open |-> FALSE, appendAt |-> 0]

SubmitFaults(d) ==
    {NoSinkFault, [NoSinkFault EXCEPT !.read = TRUE], [NoSinkFault EXCEPT !.open = TRUE]}
    \cup {[NoSinkFault EXCEPT !.appendAt = j] : j \in 1..Len(RowsToAppend(d))}

OutputRows(ss) ==
    IF HasTab(ss, OutputTabName) THEN GetSheetByName(ss, OutputTabName)[1].rows
    ELSE <<>>

\* Data rows of the output tab (the header aside)
DataRows(ss) ==
    IF Len(OutputRows(ss)) = 0 THEN <<>> ELSE Tail(OutputRows(ss))

\* new Date() at the n-th submission, as the text of the cell it is
\* written to
Stamp(n) == <<"t", ToString(n)>>

NoSubmit ==
    [ran |-> FALSE, e |-> [email |-> <<>>, items |-> <<>>], fault |-> NoSinkFault,
     data |-> EmptySubmission(Stamp(0), <<>>), success |-> FALSE, error |-> "",
     dataBefore |-> 0]

\* The sink failures the life of one form is checked with
FewSubmitFaults(d) ==
    {NoSinkFault, [NoSinkFault EXCEPT !.appendAt = Len(RowsToAppend(d))]}

\* onFormSubmitV5 on the delivered event; fault.read: reading the event
\* throws, which the handler catches and returns as success: false
RunOnFormSubmitV5(anyFault) ==
    /\ pending # <<>>
    /\ \E e \in {Head(pending)} :
       \E d \in {SubmissionData(e, Stamp(submits))} :
       \E fault \in (IF anyFault THEN SubmitFaults(d) ELSE FewSubmitFaults(d)) :
              /\ sheets' = IF fault.read THEN sheets
                           ELSE SaveSubmissionV5(sheets, d, fault)
              /\ lastSubmit' =
                     [ran |-> TRUE, e |-> e, fault |-> fault,
                      data |-> IF fault.read THEN EmptySubmission(Stamp(0), <<>>) ELSE d,
                      success |-> ~fault.read,
                      error |-> IF fault.read
                                THEN "TypeError: cannot read the response" ELSE "",
                      dataBefore |-> Len(DataRows(sheets))]
    /\ pending' = Tail(pending)
    /\ UNCHANGED <<form, builds, lastInit, walk, submits>>

\* onFormSubmitV5 in the life of one form
OnFormSubmitV5 == RunOnFormSubmitV5(FALSE)

\* onFormSubmitV5 under every failure of the sink
OnFormSubmitV5AnyFault == RunOnFormSubmitV5(TRUE)

\* The rows the last submission added to the output tab
WrittenRows ==
    SubSeq(DataRows(sheets), lastSubmit.dataBefore + 1, Len(DataRows(sheets)))

---------------------------------------------------------------------------
(* Specifications *)

\* The catalogs of the two end-to-end scenarios, and one with a system tab
\* and a tab without technology
LifecycleSpreadsheets ==
    { <<MkTab(NameAWS, ItemsColumn(NameAWS)), MkTab(NameAzure, ItemsColumn(NameAzure))>>,
      <<MkTab(NameAWS, << <<"EC2">> >>)>>,
      <<MkTab(NameSheet1, ItemsColumn(NameSheet1)), MkTab(NameGCP, BlankColumn)>> }

\* A form that holds two items of an earlier edit
StaleForm ==
    << [id |-> <<0, 1>>, type |-> "PAGE_BREAK", title |-> <<"Old", SP, "page">>,
        required |-> FALSE, choices |-> <<>>],
       [id |-> <<0, 2>>, type |-> "TEXT", title |-> <<"Old", SP, "question">>,
        required |-> FALSE, choices |-> <<>>] >>

\* Question titles and answers of the responses of SpecSubmit
AnswerPairs ==
    LET P(title, answer) == [title |-> title, answer |-> answer]
    IN  { P(TitleFullName, Str(<<"Ann">>)),
          P(TitleProject, Str(<<>>)),
          P(TitleChoose, Str(NameAWS)),
          P(TitleChoose, Str(NameAzure)),
          P(TitleChoose, Str(GoToSubmit)),
          P(TitleNext, Str(NameAWS)),
          P(TitleNext, Str(NameAzure)),
          P(TitleNext, Str(GoToSubmit)),
          P(TechQuestionTitle(NameAWS), Arr(<< <<"EC2">>, <<"S3">> >>)),
          P(TechQuestionTitle(NameAWS), Null),
          P(TechQuestionTitle(NameAzure), Arr(<< <<"VM">> >>)),
          P(TitleComments, Str(<<"ok">>)),
          P(<<"Team">>, Str(<<"x">>)) }

RECURSIVE SeqsUpTo(_, _)
SeqsUpTo(S, n) ==
    IF n = 0 THEN {<<>>}
    ELSE LET shorter == SeqsUpTo(S, n - 1)
         IN  shorter \cup
             {Append(q, x) : q \in {t \in shorter : Len(t) = n - 1}, x \in S}

Responses == {[email |-> <<"lead">>, items |-> q] : q \in SeqsUpTo(AnswerPairs, MaxAnswers)}

\* An output tab that an earlier submission created and wrote one row to
UsedOutputTab ==
    [name |-> OutputTabName,
     rows |-> <<HeaderRow,
                <<Stamp(0), <<"Bob">>, <<>>, NameGCP, 1, <<"GKE">>, <<>>, <<>>>> >>]

Init ==
    /\ sheets \in LifecycleSpreadsheets
    /\ form = <<>>
    /\ builds = 0
    /\ lastInit = NoInit
    /\ walk = IdleWalk
    /\ pending = <<>>
    /\ submits = 0
    /\ lastSubmit = NoSubmit

Next ==
    \/ InitializeFormV5
    \/ RespondentOpens
    \/ RespondentAnswers
    \/ RespondentTurnsPage
    \/ RespondentSubmits
    \/ OnFormSubmitV5

\* The life of one form: builds, respondents and submissions
Spec == Init /\ [][Next]_vars

InitBuild ==
    /\ sheets \in Spreadsheets(MaxTabs)
    /\ form \in {<<>>, StaleForm}
    /\ builds = 0
    /\ lastInit = NoInit
    /\ walk = IdleWalk
    /\ pending = <<>>
    /\ submits = 0
    /\ lastSubmit = NoSubmit

NextBuild ==
    \/ InitializeFormV5Once
    \/ RespondentOpens
    \/ RespondentAnswers
    \/ RespondentTurnsPage

\* One build over every spreadsheet of the bounds, and one respondent
SpecBuild == InitBuild /\ [][NextBuild]_vars

InitSubmit ==
    /\ sheets \in { <<MkTab(NameAWS, ItemsColumn(NameAWS))>>,
                    <<MkTab(NameAWS, ItemsColumn(NameAWS)), UsedOutputTab>> }
    /\ form = <<>>
    /\ builds = 0
    /\ lastInit = NoInit
    /\ walk = IdleWalk
    /\ pending \in {<<e>> : e \in Responses}
    /\ submits = 1
    /\ lastSubmit = NoSubmit

NextSubmit == OnFormSubmitV5AnyFault

\* onFormSubmitV5 applied to every response of the bounds
SpecSubmit == InitSubmit /\ [][NextSubmit]_vars

---------------------------------------------------------------------------
(* Properties of the build *)

ItemOf(items, id) == items[IndexOf(items, id)]

\* The page breaks of the form with the given title
PagesTitled(items, title) ==
    {i \in 1..Len(items) : items[i].type = "PAGE_BREAK" /\ items[i].title = title}

FinalPageTitle == <<"Feedback", SP, "Complete">>

\* No form call made while the pages are created and wired throws
StructureBuilt(run) ==
    /\ run.ran /\ run.success
    /\ run.fault.selUpTo = 2 /\ run.fault.sectionAt = 0
    /\ run.fault.finalUpTo = 2 /\ run.fault.navAt = 0

\* C1: for every provider at index i of the provider order, each choice of
\* that provider's "Next step" question targets the page of a provider at
\* an index > i or the final page, a page further down the form; none
\* targets the page of a provider at an index <= i.
C1_NextStepForwardOnly ==
    lastInit.ran =>
        \A i \in 1..Len(lastInit.cloudSections) :
            LET secs  == lastInit.cloudSections
                nextQ == ItemOf(form, secs[i].nextQuestion)
            IN  \A k \in 1..Len(nextQ.choices) :
                   LET target == nextQ.choices[k].target
                   IN  /\ \/ target = lastInit.finalPage
                          \/ \E j \in (i + 1)..Len(secs) : target = secs[j].pageBreak
                       /\ \A j \in 1..i : target # secs[j].pageBreak
                       /\ HasItem(form, target) =>
                             IndexOf(form, target) > IndexOf(form, secs[i].nextQuestion)

\* A build of three providers whose second provider is offered the third
\* provider and the final page, and nothing else
C1_Witness ==
    /\ lastInit.ran /\ Len(lastInit.cloudSections) = 3
    /\ LET secs == lastInit.cloudSections
           nextQ == ItemOf(form, secs[2].nextQuestion)
       IN  /\ Len(nextQ.choices) = 2
           /\ nextQ.choices[1].target = secs[3].pageBreak
           /\ nextQ.choices[2].target = lastInit.finalPage
           /\ lastInit.finalPage # NullItem

\* The final page exists and every setChoices of the run went through
Wired(run) ==
    /\ run.ran /\ run.success
    /\ run.finalPage # NullItem /\ run.fault.navAt = 0

RECURSIVE StrictlyIncreasing(_)
StrictlyIncreasing(s) ==
    IF Len(s) < 2 THEN TRUE
    ELSE s[1] < s[2] /\ StrictlyIncreasing(Tail(s))

\* C2: in a form whose final page exists and whose choices were all set, a
\* respondent never enters a page twice (the pages entered lie ever further
\* down the form), can always go on until the submit button (no dead end),
\* gives at most |providers| + 1 navigation answers, and has passed the
\* final page when the submit button is reached.
C2_TraversalAcyclic ==
    (Wired(lastInit) /\ walk.at # "idle") =>
        /\ NoDup(walk.pages)
        /\ \A i \in 1..Len(walk.pages) : HasItem(form, walk.pages[i])
        /\ StrictlyIncreasing([i \in 1..Len(walk.pages) |-> IndexOf(form, walk.pages[i])])
        /\ walk.navs <= Len(lastInit.cloudSections) + 1
        /\ walk.at = "form" => ENABLED (RespondentAnswers \/ RespondentTurnsPage)
        /\ walk.at = "end" =>
              /\ walk.pages # <<>>
              /\ walk.pages[Len(walk.pages)] = lastInit.finalPage

\* A respondent who went through three provider pages and reached the end
\* after four navigation answers
C2_Witness ==
    /\ Wired(lastInit) /\ walk.at = "end"
    /\ Len(lastInit.cloudSections) = 3
    /\ walk.navs = 4
    /\ \A i \in 1..3 : lastInit.cloudSections[i].pageBreak \in Range(walk.pages)

\* C7: for every non-empty catalog whose pages were created and wired, the
\* provider-select question has exactly |providers| + 1 choices: the i-th
\* names the i-th provider and targets the one page titled after it, the
\* last is "Go to Submit" and targets the one final page.
C7_StartChoices ==
    (StructureBuilt(lastInit) /\ lastInit.cloudData # <<>>) =>
        LET data    == lastInit.cloudData
            choices == ItemOf(form, lastInit.cloudQuestion).choices
        IN  /\ ItemOf(form, lastInit.cloudQuestion).title = TitleChoose
            /\ Len(choices) = Len(data) + 1
            /\ \A i \in 1..Len(data) :
                  /\ choices[i].value = data[i].name
                  /\ HasItem(form, choices[i].target)
                  /\ PagesTitled(form, TechPageTitle(data[i].name))
                        = {IndexOf(form, choices[i].target)}
            /\ choices[Len(data) + 1].value = GoToSubmit
            /\ HasItem(form, choices[Len(data) + 1].target)
            /\ PagesTitled(form, FinalPageTitle)
                  = {IndexOf(form, choices[Len(data) + 1].target)}

\* A catalog of three providers with its four choices
C7_Witness ==
    /\ StructureBuilt(lastInit) /\ Len(lastInit.cloudData) = 3
    /\ Len(ItemOf(form, lastInit.cloudQuestion).choices) = 4

\* The items of the form that open a page or ask a question, by type
CountType(items, type) == Cardinality({i \in 1..Len(items) : items[i].type = type})

\* C8: for every non-empty catalog, a build on a form that was cleared and
\* whose pages were all created leaves exactly one technology page per
\* provider of the catalog (page break, item list of that provider, "Next
\* step"), the intake questions on the first page, the provider-select
\* page and exactly one final page, and no other page.
C8_OnePagePerProvider ==
    (StructureBuilt(lastInit) /\ lastInit.fault.clearAt = 0
        /\ lastInit.cloudData # <<>>) =>
        LET data == lastInit.cloudData
        IN  /\ \A i \in 1..Len(data) :
                  \E p \in 1..(Len(form) - 2) :
                      /\ PagesTitled(form, TechPageTitle(data[i].name)) = {p}
                      /\ form[p + 1].type = "CHECKBOX"
                      /\ form[p + 1].title = TechQuestionTitle(data[i].name)
                      /\ [k \in 1..Len(form[p + 1].choices) |-> form[p + 1].choices[k].value]
                            = data[i].technologies
                      /\ form[p + 2].type = "MULTIPLE_CHOICE"
                      /\ form[p + 2].title = TitleNext
            /\ Cardinality(PagesTitled(form, FinalPageTitle)) = 1
            /\ CountType(form, "PAGE_BREAK") = Len(data) + 2
            /\ CountType(form, "CHECKBOX") = Len(data)
            /\ form[2].title = TitleFullName /\ form[3].title = TitleProject
            /\ form[4].type = "PAGE_BREAK" /\ form[5].title = TitleChoose

\* A build of a catalog of three providers: five pages after the first
C8_Witness ==
    /\ StructureBuilt(lastInit) /\ lastInit.fault.clearAt = 0
    /\ Len(lastInit.cloudData) = 3
    /\ CountType(form, "PAGE_BREAK") = 5
    /\ lastInit.fault.load = {}

\* C9: when no tab of the spreadsheet qualifies as a provider, a run of
\* initializeFormV5 returns success = false with an error description and
\* leaves the form as it was: nothing deleted, nothing created.
C9_NoProvidersFails ==
    [][(builds' = builds + 1 /\ ProviderTabs(sheets) = <<>>) =>
          (/\ ~lastInit'.success
           /\ lastInit'.error # ""
           /\ form' = form)]_vars

\* A run on a spreadsheet with tabs, none of them a provider, and a form
\* that holds items: it failed and the items are still there
C9_Witness ==
    /\ lastInit.ran /\ FaultFree(lastInit.fault)
    /\ sheets # <<>> /\ ProviderTabs(sheets) = <<>>
    /\ ~lastInit.success /\ form = StaleForm

\* C10 (the claim as stated; the code violates it): when tabs were detected
\* as providers and no provider page survives the run, the run reports
\* failure.
C10_ZeroSurvivorsFails ==
    (lastInit.ran /\ ~lastInit.fault.connect
        /\ ProviderTabs(sheets) # <<>> /\ ~lastInit.fault.tabs
        /\ lastInit.cloudSections = <<>>) => ~lastInit.success

---------------------------------------------------------------------------
(* Properties of submission processing *)

\* The handler ran, read the event and met no failure of the sink
Processed == lastSubmit.ran /\ lastSubmit.fault = NoSinkFault

TitlesOf(e) == {e.items[i].title : i \in 1..Len(e.items)}

IsTechTitle(title) == Includes(title, <<"Technology", SP, "Experience">>)

\* The response holds no provider-select, next-step or item-list answer
NoProviderAnswers(e) ==
    \A t \in TitlesOf(e) : t # TitleChoose /\ t # TitleNext /\ ~IsTechTitle(t)

\* The respondent picked "Go to Submit" on the provider-select question and
\* answered no other provider question
SkippedAtOnce(e) ==
    /\ \E i \in 1..Len(e.items) : e.items[i].title = TitleChoose
    /\ \A i \in 1..Len(e.items) :
          /\ e.items[i].title = TitleChoose => e.items[i].answer = Str(GoToSubmit)
          /\ e.items[i].title # TitleNext
          /\ ~IsTechTitle(e.items[i].title)

EmptyProviderRow(row) == row[4] = <<>> /\ row[5] = 0 /\ row[6] = <<>>

\* C3 (the claim as stated; the code violates it): a response whose only
\* provider answer is "Go to Submit" on the provider-select question yields
\* exactly one output row, with empty provider, item count 0 and no items.
C3_SkipYieldsEmptyRow ==
    (Processed /\ SkippedAtOnce(lastSubmit.e)) =>
        /\ Len(WrittenRows) = 1
        /\ EmptyProviderRow(WrittenRows[1])

\* C4: a response without provider-select, next-step and item-list answers
\* yields exactly one output row, with empty provider, item count 0 and no
\* items, when the sink takes the row.
C4_NoProviderAnswersOneRow ==
    (Processed /\ NoProviderAnswers(lastSubmit.e)) =>
        /\ Len(WrittenRows) = 1
        /\ EmptyProviderRow(WrittenRows[1])

\* A response of intake answers and a comment only, written as one row
C4_Witness ==
    /\ Processed /\ NoProviderAnswers(lastSubmit.e)
    /\ Len(lastSubmit.e.items) >= 2
    /\ TitleFullName \in TitlesOf(lastSubmit.e)
    /\ Len(WrittenRows) = 1 /\ WrittenRows[1][2] = <<"Ann">>

\* The answers given to the questions of the given titles, in order
RECURSIVE AnswersTo(_, _)
AnswersTo(items, titles) ==
    IF items = <<>> THEN <<>>
    ELSE (IF Head(items).title \in titles THEN <<Head(items).answer>> ELSE <<>>)
         \o AnswersTo(Tail(items), titles)

\* The providers a response names on the provider-select and next-step
\* questions, the skip choice aside, in order
ProvidersNamed(e) ==
    LET given == AnswersTo(e.items, {TitleChoose, TitleNext})
        named == SelectSeq(given, LAMBDA a : a.t = "str" /\ a.v # <<>> /\ a.v # GoToSubmit)
    IN  [i \in 1..Len(named) |-> named[i].v]

\* First occurrences, in order
FirstSeen(list) ==
    LET keep == {i \in 1..Len(list) : \A j \in 1..(i - 1) : list[j] # list[i]}
        F[i \in 0..Len(list)] ==
            IF i = 0 THEN <<>>
            ELSE IF i \in keep THEN Append(F[i - 1], list[i]) ELSE F[i - 1]
    IN  F[Len(list)]

LastOr(s, default) == IF s = <<>> THEN default ELSE s[Len(s)]

\* The items a response records for a provider
ItemsRecorded(e, provider) ==
    ArrayOrEmpty(LastOr(AnswersTo(e.items, {TechQuestionTitle(provider)}), Null))

TextGiven(e, title) ==
    LET a == LastOr(AnswersTo(e.items, {title}), Null)
    IN  IF a.t = "str" THEN a.v ELSE <<>>

\* The rows the claim C5 describes for a response: one per provider named,
\* in first-seen order; the fallback row of C4 when none is named
RowsClaimed(e, timestamp) ==
    LET visited == FirstSeen(ProvidersNamed(e))
        Row(provider, count, items) ==
            <<timestamp, TextGiven(e, TitleFullName), TextGiven(e, TitleProject),
              provider, count, items, TextGiven(e, TitleComments), e.email>>
    IN  IF visited = <<>> THEN <<Row(<<>>, 0, <<>>)>>
        ELSE [i \in 1..Len(visited) |->
                 Row(visited[i], Len(ItemsRecorded(e, visited[i])),
                     Join(ItemsRecorded(e, visited[i]), <<",", SP>>))]

\* C5 (the claim as stated; the code violates it): the rows one submission
\* writes are one row per provider of the deduplicated visited list, in
\* first-seen order, each with the provider's name, the number of items
\* recorded for it and those items joined, the intake fields and the
\* comment.
C5_OneRowPerVisitedProvider ==
    Processed => WrittenRows = RowsClaimed(lastSubmit.e, lastSubmit.data.timestamp)

Occurrences(list, x) == Cardinality({i \in 1..Len(list) : list[i] = x})

RowsFor(rows, provider) == {i \in 1..Len(rows) : rows[i][4] = provider}

\* C6: a provider that a response names more than once across the
\* provider-select and next-step answers gets exactly one output row.
C6_RepeatedProviderOneRow ==
    Processed =>
        \A p \in Range(ProvidersNamed(lastSubmit.e)) :
            Occurrences(ProvidersNamed(lastSubmit.e), p) > 1 =>
                Cardinality(RowsFor(WrittenRows, p)) = 1

\* A response that names AWS on the provider-select question and again on
\* a next-step question, written as a single AWS row
C6_Witness ==
    /\ Processed
    /\ Occurrences(ProvidersNamed(lastSubmit.e), NameAWS) = 2
    /\ [title |-> TitleChoose, answer |-> Str(NameAWS)] \in Range(lastSubmit.e.items)
    /\ [title |-> TitleNext, answer |-> Str(NameAWS)] \in Range(lastSubmit.e.items)
    /\ Cardinality(RowsFor(WrittenRows, NameAWS)) = 1

---------------------------------------------------------------------------
(* Properties of failure handling *)

\* The run created the pages of the catalog, and a form call threw while
\* the page of the provider at index k was created (nothing else threw)
PageCreationFailedAt(run, k) ==
    /\ run.ran
    /\ run.fault.sectionAt = k /\ k \in 1..Len(run.cloudData)
    /\ run.fault = [NoFault EXCEPT !.sectionAt = k,
                                   !.sectionUpTo = run.fault.sectionUpTo]

\* The provider has its one page, its choice on the provider-select
\* question targeting that page, and a "Next step" question on that page
\* that offers the final page
ProviderServed(items, run, name) ==
    \E p \in 1..(Len(items) - 2) :
        /\ PagesTitled(items, TechPageTitle(name)) = {p}
        /\ HasItem(items, run.cloudQuestion)
        /\ \E c \in Range(ItemOf(items, run.cloudQuestion).choices) :
              c.value = name /\ c.target = items[p].id
        /\ items[p + 2].title = TitleNext
        /\ \E c \in Range(items[p + 2].choices) :
              c.value = GoToSubmit /\ c.target = run.finalPage

\* C11 (the claim as stated; the code violates it): when the creation of
\* one provider's page fails, the build still succeeds and every other
\* provider of the catalog has its page, its choice on the provider-select
\* question and its next-step choices.
C11_OnlyFailingProviderSkipped ==
    \A k \in 1..MaxTabs :
        PageCreationFailedAt(lastInit, k) =>
            /\ lastInit.success
            /\ \A i \in 1..Len(lastInit.cloudData) :
                  i # k => ProviderServed(form, lastInit, lastInit.cloudData[i].name)

\* The ids of the items of a form
IdsOf(items) == {items[i].id : i \in 1..Len(items)}

\* C12 (the claim as stated; the code violates it): a run of
\* initializeFormV5 on a form that holds items, returning success = true,
\* leaves a form without any of the items it held before the run.
C12_FullReplace ==
    [][(builds' = builds + 1 /\ form # <<>> /\ lastInit'.success) =>
          IdsOf(form') \cap IdsOf(form) = {}]_vars

\* The run failed before clearFormContent: the spreadsheet or the form
\* could not be opened, the tabs could not be read, or no tab qualified
EarlyFailure(run, ss) ==
    run.fault.connect \/ run.fault.tabs \/ ProviderTabs(ss) = <<>>

\* C13: a run of initializeFormV5 that fails early (data source or form
\* unreachable, or no provider found) returns success = false and leaves
\* the form exactly as it was: no item deleted, no item created.
C13_EarlyFailureLeavesForm ==
    [][(builds' = builds + 1 /\ EarlyFailure(lastInit', sheets)) =>
          (~lastInit'.success /\ form' = form)]_vars

\* A run that could not read the tabs of a spreadsheet with provider tabs,
\* on a form that holds items: it failed and the items are still there
C13_Witness ==
    /\ lastInit.ran /\ lastInit.fault.tabs
    /\ ProviderTabs(sheets) # <<>>
    /\ ~lastInit.success /\ form = StaleForm

\* C14 (the claim as stated; the code violates it): whenever a step of a
\* build (reading the spreadsheet, clearing, creating pages, wiring the
\* navigation) or the write to the sink fails, the object the entry point
\* returns has success = false and an error description.
C14_FailuresSurfaced ==
    /\ (lastInit.ran /\ ~FaultFree(lastInit.fault)) =>
           (~lastInit.success /\ lastInit.error # "")
    /\ (lastSubmit.ran /\ lastSubmit.fault # NoSinkFault) =>
           (~lastSubmit.success /\ lastSubmit.error # "")

\* s is the first rows of t
IsPrefix(s, t) == Len(s) <= Len(t) /\ SubSeq(t, 1, Len(s)) = s

\* C15: one run of onFormSubmitV5 attempts each output row at most once.
\* The rows the output tab held stay; the rows added are the first rows of
\* the rows of the submission, in order; when the j-th appendRow throws,
\* exactly the j - 1 rows before it were added (no retry, no removal) and
\* the handler still returns normally.
C15_AppendAtMostOnce ==
    [][(pending # <<>> /\ ~lastSubmit'.fault.read) =>
          LET before  == DataRows(sheets)
              after   == DataRows(sheets')
              rows    == RowsToAppend(lastSubmit'.data)
              written == SubSeq(after, Len(before) + 1, Len(after))
              j       == lastSubmit'.fault.appendAt
          IN  /\ IsPrefix(before, after)
              /\ IsPrefix(written, rows)
              /\ j > 0 => Len(written) = j - 1
              /\ lastSubmit'.success]_vars

\* A submission of two providers whose second appendRow threw: the first
\* row is on the output tab after the row of an earlier submission
C15_Witness ==
    /\ lastSubmit.ran /\ lastSubmit.fault.appendAt = 2
    /\ lastSubmit.dataBefore = 1
    /\ Len(RowsToAppend(lastSubmit.data)) = 2
    /\ Len(WrittenRows) = 1
    /\ WrittenRows[1] = RowsToAppend(lastSubmit.data)[1]
    /\ lastSubmit.success

\* Every answer the response gives under the title is empty or absent
NotGiven(e, title) ==
    \A i \in 1..Len(e.items) : e.items[i].title = title => ~Truthy(e.items[i].answer)

\* The response without its answers under the title
Without(e, title) ==
    [e EXCEPT !.items = SelectSeq(@, LAMBDA ir : ir.title # title)]

\* The rows one run appends for a response when the sink takes them all
RowsOf(e, timestamp) == RowsToAppend(SubmissionData(e, timestamp))

\* C16: when the full name (the project name) is missing or empty in a
\* response, the name (project) field of every output row is the empty
\* string, the handler succeeds, and the rows written are those of the
\* response without that answer: the remaining answers are processed and
\* at least one row is written.
C16_MissingIntakeDefaultsEmpty ==
    Processed =>
        \A f \in {<<TitleFullName, 2>>, <<TitleProject, 3>>} :
            NotGiven(lastSubmit.e, f[1]) =>
                /\ lastSubmit.success
                /\ Len(WrittenRows) >= 1
                /\ \A i \in 1..Len(WrittenRows) : WrittenRows[i][f[2]] = <<>>
                /\ WrittenRows = RowsOf(Without(lastSubmit.e, f[1]),
                                        lastSubmit.data.timestamp)

\* A response with an empty project name, no full name, and AWS selected:
\* one AWS row with both intake fields empty
C16_Witness ==
    /\ Processed
    /\ [title |-> TitleProject, answer |-> Str(<<>>)] \in Range(lastSubmit.e.items)
    /\ TitleFullName \notin TitlesOf(lastSubmit.e)
    /\ Len(WrittenRows) = 1
    /\ WrittenRows[1][2] = <<>> /\ WrittenRows[1][3] = <<>>
    /\ WrittenRows[1][4] = NameAWS

\* The title matches none of the patterns onFormSubmitV5 knows
UnknownTitle(title) ==
    /\ title \notin {TitleFullName, TitleProject, TitleChoose, TitleNext}
    /\ ~IsTechTitle(title)
    /\ ~Includes(title, <<"Additional", SP, "Comments">>)

\* The response without its answers under unknown titles
KnownOnly(e) ==
    [e EXCEPT !.items = SelectSeq(@, LAMBDA ir : ~UnknownTitle(ir.title))]

\* C17: answers under titles that match no known pattern are ignored: the
\* handler succeeds and writes the very rows it writes for the response
\* without those answers.
C17_UnknownTitlesIgnored ==
    Processed =>
        /\ lastSubmit.success
        /\ WrittenRows = RowsOf(KnownOnly(lastSubmit.e), lastSubmit.data.timestamp)

\* A response with an answer under the unknown title "Team" between a
\* provider answer and a comment, written as one AWS row with the comment
C17_Witness ==
    /\ Processed
    /\ lastSubmit.e.items =
          << [title |-> TitleChoose, answer |-> Str(NameAWS)],
             [title |-> <<"Team">>, answer |-> Str(<<"x">>)],
             [title |-> TitleComments, answer |-> Str(<<"ok">>)] >>
    /\ Len(WrittenRows) = 1
    /\ WrittenRows[1][4] = NameAWS /\ WrittenRows[1][7] = <<"ok">>

---------------------------------------------------------------------------
(* The labeling convention, checked over provider names with spaces *)

MaxNameLen == 3

\* Tab names made of a word and spaces: "AWS", "AWS ", " AWS", "AWS AWS", ...
LabelNames == {s \in SeqsUpTo({"AWS", SP}, MaxNameLen) : "AWS" \in Range(s)}

InitLabel ==
    /\ sheets \in {<<MkTab(name, << <<"EC2">> >>)>> : name \in LabelNames}
    /\ form = <<>>
    /\ builds = 0
    /\ lastInit = NoInit
    /\ walk = IdleWalk
    /\ pending = <<>>
    /\ submits = 0
    /\ lastSubmit = NoSubmit

\* The life of one form whose single provider tab has any of the names
SpecLabel == InitLabel /\ [][Next]_vars

\* C18 (the claim as stated; the code violates it): for every provider of
\* the catalog, the title given to the item-list question on its page
\* decodes back to exactly the provider's name, and the rows written for a
\* provider carry the number of items the response records under that
\* question.
C18_LabelRoundTrip ==
    /\ lastInit.ran =>
          \A i \in 1..Len(lastInit.cloudSections) :
              LET sec == lastInit.cloudSections[i]
                  q   == form[IndexOf(form, sec.pageBreak) + 1]
              IN  HasItem(form, sec.pageBreak) => DecodeCloud(q.title) = sec.name
    /\ (Processed /\ lastInit.ran) =>
          \A i \in 1..Len(WrittenRows) :
              \A j \in 1..Len(lastInit.cloudSections) :
                  LET name == lastInit.cloudSections[j].name
                  IN  WrittenRows[i][4] = name =>
                          WrittenRows[i][5] =
                              Len(ArrayOrEmpty(LastOr(AnswersTo(lastSubmit.e.items,
                                      {TechQuestionTitle(name)}), Null)))

---------------------------------------------------------------------------
(* What the respondent is shown *)

\* The providers of the catalog whose technology page the respondent has
\* entered
ProvidersShown(run, items, w) ==
    {name \in Range(Keys(run.cloudData)) :
        \E i \in 1..Len(w.pages) :
            /\ HasItem(items, w.pages[i])
            /\ ItemOf(items, w.pages[i]).title = TechPageTitle(name)}

\* The providers the respondent has picked on the provider-select question
\* or on a "Next step" question
ProvidersPicked(w) ==
    {w.answers[i].answer.v : i \in {k \in 1..Len(w.answers) :
                                       w.answers[k].title \in {TitleChoose, TitleNext}}}

\* C19: in a form whose final page exists and whose choices were all set,
\* the respondent enters the technology page of a provider only after
\* picking that provider on the provider-select question or on a "Next
\* step" question; no page of an unpicked provider is entered.
C19_OnlySelectedPagesShown ==
    (Wired(lastInit) /\ walk.at # "idle") =>
        ProvidersShown(lastInit, form, walk) \subseteq ProvidersPicked(walk)

\* A respondent who picked Azure, then GCP, and reached the end without
\* entering the AWS page
C19_Witness ==
    /\ Wired(lastInit) /\ walk.at = "end"
    /\ Keys(lastInit.cloudData) = <<NameAWS, NameAzure, NameGCP>>
    /\ ProvidersShown(lastInit, form, walk) = {NameAzure, NameGCP}
    /\ ProvidersPicked(walk) = {NameAzure, NameGCP, GoToSubmit}

---------------------------------------------------------------------------
(* The V3 script: initializeFormV3 *)

CloudQuestionTitleV3 == <<"Cloud", SP, "Providers">>

\* const cloudProviders = ['AWS', 'Azure', 'GCP']
CloudProvidersV3 == <<NameAWS, NameAzure, NameGCP>>

\* readTechnologiesFromSheet: [] when the tab is missing or empty
ReadTechnologiesFromSheet(ss, sheetName) ==
    LET found == GetSheetByName(ss, sheetName)
    IN  IF found = <<>> \/ Len(found[1].rows) = 0 THEN <<>>
        ELSE LET cells == NonBlankCells(FirstColumn(found[1]))
             IN  [i \in 1..Len(cells) |-> Trim(cells[i])]

\* loadAllCloudDataFromSheets: the providers with at least one technology
RECURSIVE LoadAllCloudDataFromSheets(_, _)
LoadAllCloudDataFromSheets(ss, cloudProviders) ==
    IF cloudProviders = <<>> THEN <<>>
    ELSE LET provider     == Head(cloudProviders)
             technologies == ReadTechnologiesFromSheet(ss, provider)
         IN  (IF Len(technologies) > 0
              THEN <<[name |-> provider, technologies |-> technologies]>>
              ELSE <<>>)
             \o LoadAllCloudDataFromSheets(ss, Tail(cloudProviders))

\* createCloudSelectionWithNavigation: a header and the cloud question
CreateCloudSelectionWithNavigation(st, gen) ==
    LET s1 == AddItem(st, gen, "SECTION_HEADER",
                      <<"Cloud", SP, "Provider", SP, "Experience">>, FALSE)
    IN  AddItem(s1, gen, "MULTIPLE_CHOICE", CloudQuestionTitleV3, TRUE)

\* One iteration of the first forEach of createHiddenCloudSections: the
\* page, its checkbox question and the "Continue" item, which gets no
\* choice and is not required
CreateHiddenSection(st, gen, entry) ==
    LET s1  == AddItem(st, gen, "PAGE_BREAK", TechPageTitle(entry.name), FALSE)
        s2a == AddItem(s1, gen, "CHECKBOX",
                       entry.name \o <<SP, "Skills", SP, "Assessment">>, FALSE)
        s2  == [s2a EXCEPT !.items =
                   SetChoices(s2a.items, LastId(s2a),
                              [i \in 1..Len(entry.technologies) |->
                                  CreateChoice(entry.technologies[i], NullItem)])]
        s3  == AddItem(s2, gen, "MULTIPLE_CHOICE", <<"Continue">>, FALSE)
    IN  [st |-> s3,
         section |-> [name |-> entry.name, pageBreak |-> LastId(s1),
                      nextQuestion |-> LastId(s3)]]

RECURSIVE HiddenSectionsFrom(_, _, _, _)
HiddenSectionsFrom(st, gen, data, acc) ==
    IF data = <<>> THEN [st |-> st, sections |-> acc]
    ELSE LET one == CreateHiddenSection(st, gen, Head(data))
         IN  HiddenSectionsFrom(one.st, gen, Tail(data), Append(acc, one.section))

\* createHiddenCloudSections: the sections, then the choices of the cloud
\* question, one per section, each leading to the section's page.
\* setChoices with no choice either throws (onEmpty = "throws"), which is
\* rethrown, or leaves the question without choices ("plain")
CreateHiddenCloudSections(st, gen, allCloudData, cloudQuestion, onEmpty) ==
    LET made    == HiddenSectionsFrom(st, gen, allCloudData, <<>>)
        choices == [i \in 1..Len(made.sections) |->
                       CreateChoice(made.sections[i].name, made.sections[i].pageBreak)]
    IN  IF choices = <<>> /\ onEmpty = "throws"
        THEN [st |-> made.st, sections |-> made.sections, threw |-> TRUE]
        ELSE [st |-> [made.st EXCEPT !.items = SetChoices(@, cloudQuestion, choices)],
              sections |-> made.sections, threw |-> FALSE]

\* createFinalSubmissionPage of the V3 script
CreateFinalSubmissionPageV3(st, gen) ==
    LET s1 == AddItem(st, gen, "PAGE_BREAK", <<"Assessment", SP, "Complete">>, FALSE)
        s2 == AddItem(s1, gen, "PARAGRAPH_TEXT", TitleComments, FALSE)
    IN  [st |-> s2, finalPage |-> LastId(s1)]

\* initializeFormV3: the form items it leaves and the object it returns
InitializeFormV3Result(ss, items, gen, onEmpty) ==
    LET allCloudData == LoadAllCloudDataFromSheets(ss, CloudProvidersV3)
        s0  == [items |-> ClearFormContent(items, 0), n |-> 0]
        s1  == CreateCloudSelectionWithNavigation(s0, gen)
        cloudQuestion == LastId(s1)
        sec == CreateHiddenCloudSections(s1, gen, allCloudData, cloudQuestion, onEmpty)
        fin == CreateFinalSubmissionPageV3(sec.st, gen)
    IN  IF sec.threw
        THEN Failure(sec.st.items, "Exception: cannot set the choices")
        ELSE [items |-> fin.st.items, success |-> TRUE, error |-> "",
              cloudProviders |-> Keys(allCloudData), cloudData |-> allCloudData,
              totalTechnologies |-> SumLen(allCloudData),
              cloudSections |-> sec.sections, finalPage |-> fin.finalPage,
              cloudQuestion |-> cloudQuestion]

\* One run of initializeFormV3 on a spreadsheet and a form
InitializeFormV3Once ==
    /\ builds = 0
    /\ \E onEmpty \in {"throws", "plain"} :
       \E r \in {InitializeFormV3Result(sheets, form, 1, onEmpty)} :
           /\ form' = r.items
           /\ lastInit' =
                  [ran |-> TRUE, fault |-> [NoFault EXCEPT !.onNull = onEmpty],
                   success |-> r.success, error |-> r.error,
                   cloudProviders |-> r.cloudProviders, cloudData |-> r.cloudData,
                   totalTechnologies |-> r.totalTechnologies,
                   cloudSections |-> r.cloudSections, finalPage |-> r.finalPage,
                   cloudQuestion |-> r.cloudQuestion]
    /\ builds' = 1
    /\ walk' = IdleWalk
    /\ UNCHANGED <<sheets, pending, submits, lastSubmit>>

NextV3 ==
    \/ InitializeFormV3Once
    \/ RespondentOpens
    \/ RespondentAnswers
    \/ RespondentTurnsPage

\* One build of the V3 form over every spreadsheet of the bounds, and one
\* respondent
SpecV3 == InitBuild /\ [][NextV3]_vars

\* The clouds the respondent has picked on the "Cloud Providers" question
CloudsPickedV3(w) ==
    {w.answers[i].answer.v : i \in {k \in 1..Len(w.answers) :
                                       w.answers[k].title = CloudQuestionTitleV3}}

\* C20 (the claim as stated; the code violates it): in the V3 form, the
\* technology pages the respondent enters are pages of clouds picked on
\* the "Cloud Providers" question; no page of another cloud is entered
\* before the final page.
C20_OnlySelectedCloudShownV3 ==
    (lastInit.ran /\ lastInit.success /\ walk.at # "idle") =>
        ProvidersShown(lastInit, form, walk) \subseteq CloudsPickedV3(walk)

---------------------------------------------------------------------------
(* The V4 script: initializeFormV4 *)

\* var CLOUD_PROVIDER = 'Azure'
CloudProviderV4 == NameAzure

CloudQuestionTitleV4 == <<"Cloud", SP, "Provider", SP, "Experience">>

TechQuestionTitleV4 == CloudProviderV4 \o <<SP, "Technology", SP, "Skills">>

\* loadTechnologiesFromSheet of the V4 script
LoadTechnologiesFromSheetV4(ss, sheetName) ==
    LET found == GetSheetByName(ss, sheetName)
    IN  IF found = <<>> \/ Len(found[1].rows) = 0 THEN <<>>
        ELSE LET cells == NonBlankCells(FirstColumn(found[1]))
             IN  [i \in 1..Len(cells) |-> Trim(cells[i])]

\* createNameAndCloudSection: header, name, a page break and the cloud
\* checkbox with the one choice CLOUD_PROVIDER, not required
CreateNameAndCloudSection(st, gen) ==
    LET s1 == AddItem(st, gen, "SECTION_HEADER",
                      <<"Personal", SP, "Information", SP, "&", SP, "Cloud", SP, "Experience">>,
                      FALSE)
        s2 == AddItem(s1, gen, "TEXT", <<"Full", SP, "Name">>, TRUE)
        s3 == AddItem(s2, gen, "PAGE_BREAK", CloudQuestionTitleV4, FALSE)
        s4 == AddItem(s3, gen, "CHECKBOX", CloudQuestionTitleV4, FALSE)
    IN  [s4 EXCEPT !.items =
            SetChoices(s4.items, LastId(s4), <<CreateChoice(CloudProviderV4, NullItem)>>)]

\* createTechnologySection: nothing when there is no technology, else a
\* page break and the technology checkbox
CreateTechnologySection(st, gen, technologies) ==
    IF Len(technologies) = 0 THEN st
    ELSE LET s1 == AddItem(st, gen, "PAGE_BREAK", TechPageTitle(CloudProviderV4), FALSE)
             s2 == AddItem(s1, gen, "CHECKBOX", TechQuestionTitleV4, FALSE)
         IN  [s2 EXCEPT !.items =
                 SetChoices(s2.items, LastId(s2),
                            [i \in 1..Len(technologies) |->
                                CreateChoice(technologies[i], NullItem)])]

\* createFinalSection
CreateFinalSection(st, gen) ==
    LET s1 == AddItem(st, gen, "PAGE_BREAK", <<"Assessment", SP, "Complete">>, FALSE)
    IN  AddItem(s1, gen, "PARAGRAPH_TEXT", TitleComments, FALSE)

\* createFormStructureV4
CreateFormStructureV4(st, gen, technologies) ==
    CreateFinalSection(
        CreateTechnologySection(CreateNameAndCloudSection(st, gen), gen, technologies),
        gen)

\* initializeFormV4: the form items it leaves and the object it returns
InitializeFormV4Result(ss, items, gen) ==
    LET technologies == LoadTechnologiesFromSheetV4(ss, CloudProviderV4)
        s0    == [items |-> ClearFormContent(items, 0), n |-> 0]
        built == CreateFormStructureV4(s0, gen, technologies)
        data  == IF Len(technologies) = 0 THEN <<>>
                 ELSE <<[name |-> CloudProviderV4, technologies |-> technologies]>>
    IN  [items |-> built.items, success |-> TRUE, error |-> "",
         cloudProviders |-> <<CloudProviderV4>>, cloudData |-> data,
         totalTechnologies |-> Len(technologies),
         cloudSections |-> <<>>, finalPage |-> NullItem,
         cloudQuestion |-> built.items[Len(s0.items) + 4].id]

\* One run of initializeFormV4 on a spreadsheet and a form
InitializeFormV4Once ==
    /\ builds = 0
    /\ \E r \in {InitializeFormV4Result(sheets, form, 1)} :
           /\ form' = r.items
           /\ lastInit' =
                  [ran |-> TRUE, fault |-> NoFault,
                   success |-> r.success, error |-> r.error,
                   cloudProviders |-> r.cloudProviders, cloudData |-> r.cloudData,
                   totalTechnologies |-> r.totalTechnologies,
                   cloudSections |-> r.cloudSections, finalPage |-> r.finalPage,
                   cloudQuestion |-> r.cloudQuestion]
    /\ builds' = 1
    /\ walk' = IdleWalk
    /\ UNCHANGED <<sheets, pending, submits, lastSubmit>>

NextV4 ==
    \/ InitializeFormV4Once
    \/ RespondentOpens
    \/ RespondentAnswers
    \/ RespondentTurnsPage

\* One build of the V4 form over every spreadsheet of the bounds, and one
\* respondent
SpecV4 == InitBuild /\ [][NextV4]_vars

\* The respondent checked CLOUD_PROVIDER on the cloud checkbox
CheckedCloudV4(w) ==
    \E i \in 1..Len(w.answers) :
        /\ w.answers[i].title = CloudQuestionTitleV4
        /\ w.answers[i].answer.t = "arr"
        /\ CloudProviderV4 \in Range(w.answers[i].answer.v)

\* The respondent has entered the page of the technology question
OnTechPageV4(items, w) ==
    \E i \in 1..Len(w.pages) :
        /\ HasItem(items, w.pages[i])
        /\ ItemOf(items, w.pages[i]).title = TechPageTitle(CloudProviderV4)

\* C21 (the claim as stated; the code violates it): in the V4 form the
\* respondent enters the page of the Azure technology question only after
\* checking "Azure" on the cloud checkbox.
C21_TechShownOnlyIfCheckedV4 ==
    (lastInit.ran /\ lastInit.success /\ walk.at # "idle") =>
        (OnTechPageV4(form, walk) => CheckedCloudV4(walk))

---------------------------------------------------------------------------
(* The sync script: syncFormFromSheets and smartSyncFormFromSheets *)

\* const providers = [{ key, sheet, sectionTitle: 'skillset_<key>' }, ...]
SyncProviders ==
    << [key |-> NameAWS,   sheet |-> NameAWS,   sectionTitle |-> <<"skillset_">> \o NameAWS],
       [key |-> NameAzure, sheet |-> NameAzure, sectionTitle |-> <<"skillset_">> \o NameAzure],
       [key |-> NameGCP,   sheet |-> NameGCP,   sectionTitle |-> <<"skillset_">> \o NameGCP] >>

\* providers.filter(provider => ss.getSheetByName(provider.sheet) !== null)
ActiveProviders(ss) ==
    SelectSeq(SyncProviders, LAMBDA p : GetSheetByName(ss, p.sheet) # <<>>)

\* readTechnologiesFromSheet of the sync script
ReadTechnologiesFromSheetSync(ss, sheetName) ==
    LET found == GetSheetByName(ss, sheetName)
    IN  IF found = <<>> \/ Len(found[1].rows) = 0 THEN <<>>
        ELSE LET cells == NonBlankCells(FirstColumn(found[1]))
             IN  [i \in 1..Len(cells) |-> Trim(cells[i])]

\* setupCloudSelectionQuestion: the checkbox titled "Cloud Providers" is
\* found or added, and gets one choice per active provider
SetupCloudSelectionQuestion(st, gen, providers) ==
    LET found  == {i \in 1..Len(st.items) :
                      /\ st.items[i].type = "CHECKBOX"
                      /\ st.items[i].title = CloudQuestionTitleV3}
        s1     == IF found = {} 
                  THEN AddItem(st, gen, "CHECKBOX", CloudQuestionTitleV3, FALSE)
                  ELSE st
        first  == CHOOSE i \in 1..Len(s1.items) :
                      /\ s1.items[i].type = "CHECKBOX"
                      /\ s1.items[i].title = CloudQuestionTitleV3
                      /\ \A j \in 1..(i - 1) :
                            ~(s1.items[j].type = "CHECKBOX"
                              /\ s1.items[j].title = CloudQuestionTitleV3)
    IN  [s1 EXCEPT !.items =
            SetChoices(s1.items, s1.items[first].id,
                       [i \in 1..Len(providers) |->
                           CreateChoice(providers[i].key, NullItem)])]

\* The positions removeExistingSection collects: the page breaks titled
\* sectionTitle from the first one on and the items after them, up to the
\* next page break of another title
RECURSIVE ItemsToRemove(_, _, _, _)
ItemsToRemove(items, sectionTitle, i, inTargetSection) ==
    IF i > Len(items) THEN {}
    ELSE IF items[i].type = "PAGE_BREAK"
    THEN IF items[i].title = sectionTitle
         THEN {i} \cup ItemsToRemove(items, sectionTitle, i + 1, TRUE)
         ELSE IF inTargetSection THEN {}
         ELSE ItemsToRemove(items, sectionTitle, i + 1, FALSE)
    ELSE IF inTargetSection
    THEN {i} \cup ItemsToRemove(items, sectionTitle, i + 1, TRUE)
    ELSE ItemsToRemove(items, sectionTitle, i + 1, FALSE)

RECURSIVE Keep(_, _, _)
Keep(items, drop, i) ==
    IF i > Len(items) THEN <<>>
    ELSE (IF i \in drop THEN <<>> ELSE <<items[i]>>) \o Keep(items, drop, i + 1)

\* removeExistingSection
RemoveExistingSection(items, sectionTitle) ==
    Keep(items, ItemsToRemove(items, sectionTitle, 1, FALSE), 1)

\* createOrUpdateSkillsetSection: nothing at all when there is no
\* technology; else the old section is removed and a new one is added at
\* the end of the form
CreateOrUpdateSkillsetSection(st, gen, provider, technologies) ==
    IF Len(technologies) = 0 THEN st
    ELSE LET s0 == [st EXCEPT !.items = RemoveExistingSection(@, provider.sectionTitle)]
             s1 == AddItem(s0, gen, "PAGE_BREAK", provider.sectionTitle, FALSE)
             s2 == AddItem(s1, gen, "CHECKBOX", TechPageTitle(provider.key), FALSE)
         IN  [s2 EXCEPT !.items =
                 SetChoices(s2.items, LastId(s2),
                            [i \in 1..Len(technologies) |->
                                CreateChoice(technologies[i], NullItem)])]

\* activeProviders.forEach(provider => createOrUpdateSkillsetSection(...))
RECURSIVE UpdateSections(_, _, _, _)
UpdateSections(st, gen, ss, providers) ==
    IF providers = <<>> THEN st
    ELSE UpdateSections(
             CreateOrUpdateSkillsetSection(
                 st, gen, Head(providers),
                 ReadTechnologiesFromSheetSync(ss, Head(providers).sheet)),
             gen, ss, Tail(providers))

\* syncFormFromSheets: the items it leaves, and whether it completed.
\* openByUrl or openById may throw (opened = FALSE); setChoiceValues with no
\* value either throws (onEmpty = "throws") or leaves the question without
\* choices ("plain"); what is thrown is rethrown
SyncFormFromSheetsResult(ss, items, gen, opened, onEmpty) ==
    LET active == ActiveProviders(ss)
        s0     == [items |-> items, n |-> 0]
        s1     == SetupCloudSelectionQuestion(s0, gen, active)
    IN  IF ~opened THEN [items |-> items, completed |-> FALSE]
        ELSE IF active = <<>> /\ onEmpty = "throws"
        THEN [items |-> IF \E i \in 1..Len(items) :
                               /\ items[i].type = "CHECKBOX"
                               /\ items[i].title = CloudQuestionTitleV3
                        THEN items
                        ELSE AddItem(s0, gen, "CHECKBOX", CloudQuestionTitleV3, FALSE).items,
              completed |-> FALSE]
        ELSE [items |-> UpdateSections(s1, gen, ss, active).items,
              completed |-> TRUE]

\* getExistingTechnologies: the choices of the first checkbox of a section
\* titled sectionTitle; [] when there is none
RECURSIVE ExistingFrom(_, _, _, _)
ExistingFrom(items, sectionTitle, i, inTargetSection) ==
    IF i > Len(items) THEN <<>>
    ELSE IF items[i].type = "PAGE_BREAK"
    THEN ExistingFrom(items, sectionTitle, i + 1, items[i].title = sectionTitle)
    ELSE IF inTargetSection /\ items[i].type = "CHECKBOX"
    THEN [k \in 1..Len(items[i].choices) |-> items[i].choices[k].value]
    ELSE ExistingFrom(items, sectionTitle, i + 1, inTargetSection)

GetExistingTechnologies(items, sectionTitle) ==
    ExistingFrom(items, sectionTitle, 1, FALSE)


\* arraysEqual as a comparison of the two lists in their given order
ArraysEqualInOrder(a, b) == a = b

\* arraysEqual: equal lengths, and the sorted copies agree position by
\* position; under the total order of sort() that is: some rearrangement
\* of b is a
ArraysEqual(a, b) ==
    /\ Len(a) = Len(b)
    /\ \E p \in [1..Len(a) -> 1..Len(a)] :
           /\ \A i, j \in 1..Len(a) : i # j => p[i] # p[j]
           /\ \A i \in 1..Len(a) : a[i] = b[p[i]]

\* The hasChanges of smartSyncFormFromSheets: some provider's sheet list
\* and form list are not arraysEqual
HasChanges(ss, items) ==
    \E i \in 1..Len(SyncProviders) :
        ~ArraysEqual(ReadTechnologiesFromSheetSync(ss, SyncProviders[i].sheet),
                     GetExistingTechnologies(items, SyncProviders[i].sectionTitle))

\* Column A of the tabs the sync script is run against: for AWS the
\* catalog columns, the same technologies in another order and a shorter
\* list; for Azure the catalog columns; for GCP the one with technologies
SyncColumnsOf(name) ==
    IF name = NameAWS
    THEN ColumnsOf(name) \cup { << <<"S3">>, <<"EC2">> >>, << <<"EC2">> >> }
    ELSE IF name = NameAzure THEN ColumnsOf(name)
    ELSE {ItemsColumn(name)}

SyncTabOrder == <<NameAWS, NameAzure, NameGCP>>

RECURSIVE SyncTabsFrom(_, _)
SyncTabsFrom(k, n) ==
    IF k > Len(SyncTabOrder) \/ n = 0 THEN {<<>>}
    ELSE SyncTabsFrom(k + 1, n) \cup
         {<<MkTab(SyncTabOrder[k], col)>> \o rest :
             col \in SyncColumnsOf(SyncTabOrder[k]), rest \in SyncTabsFrom(k + 1, n - 1)}

SyncSpreadsheets(n) == SyncTabsFrom(1, n)

\* What is recorded of the last run of the sync script: thrown says that
\* smartSyncFormFromSheets reached its catch, syncs counts the calls of
\* syncFormFromSheets
NoSync ==
    [ran |-> FALSE, smart |-> FALSE, thrown |-> FALSE, syncs |-> 0,
     completed |-> FALSE]

\* syncFormFromSheets run from the menu or a trigger
SyncFormFromSheets ==
    /\ builds < MaxBuilds
    /\ \E opened \in BOOLEAN, onEmpty \in {"throws", "plain"} :
       \E r \in {SyncFormFromSheetsResult(sheets, form, builds + 1, opened, onEmpty)} :
           /\ form' = r.items
           /\ lastInit' = [ran |-> TRUE, smart |-> FALSE, thrown |-> FALSE,
                           syncs |-> 1, completed |-> r.completed]
    /\ builds' = builds + 1
    /\ UNCHANGED <<sheets, walk, pending, submits, lastSubmit>>

\* smartSyncFormFromSheets: a full sync when hasChanges, else nothing;
\* when its own openByUrl or openById throws, or the sync it started
\* throws, the catch runs syncFormFromSheets (once more)
SmartSyncFormFromSheets ==
    /\ builds < MaxBuilds
    /\ \E opened, opened1, opened2 \in BOOLEAN, onEmpty \in {"throws", "plain"} :
       \E r1 \in {SyncFormFromSheetsResult(sheets, form, builds + 1, opened1, onEmpty)} :
       \E r2 \in {SyncFormFromSheetsResult(sheets, r1.items, builds + 1, opened2, onEmpty)} :
           IF ~opened
           THEN /\ form' = r1.items
                /\ lastInit' = [ran |-> TRUE, smart |-> TRUE, thrown |-> TRUE,
                                syncs |-> 1, completed |-> r1.completed]
           ELSE IF ~HasChanges(sheets, form)
           THEN /\ form' = form
                /\ lastInit' = [ran |-> TRUE, smart |-> TRUE, thrown |-> FALSE,
                                syncs |-> 0, completed |-> TRUE]
           ELSE IF r1.completed
           THEN /\ form' = r1.items
                /\ lastInit' = [ran |-> TRUE, smart |-> TRUE, thrown |-> FALSE,
                                syncs |-> 1, completed |-> TRUE]
           ELSE /\ form' = r2.items
                /\ lastInit' = [ran |-> TRUE, smart |-> TRUE, thrown |-> TRUE,
                                syncs |-> 2, completed |-> r2.completed]
    /\ builds' = builds + 1
    /\ UNCHANGED <<sheets, walk, pending, submits, lastSubmit>>

\* The owner edits one tab of the spreadsheet between two runs: its
\* column A changes, or the tab is added or deleted
SheetsEdited ==
    /\ builds < MaxBuilds
    /\ \E edited \in SyncSpreadsheets(MaxTabs) \ {sheets} :
       \E k \in 1..Len(SyncTabOrder) :
           /\ \A j \in 1..Len(SyncTabOrder) :
                  j # k => GetSheetByName(edited, SyncTabOrder[j]) =
                               GetSheetByName(sheets, SyncTabOrder[j])
           /\ sheets' = edited
    /\ UNCHANGED <<form, builds, lastInit, walk, pending, submits, lastSubmit>>

InitSync ==
    /\ sheets \in SyncSpreadsheets(MaxTabs)
    /\ form = <<>>
    /\ builds = 0
    /\ lastInit = NoSync
    /\ walk = IdleWalk
    /\ pending = <<>>
    /\ submits = 0
    /\ lastSubmit = NoSubmit

NextSync ==
    \/ SyncFormFromSheets
    \/ SmartSyncFormFromSheets
    \/ SheetsEdited

\* Runs of the sync script over an edited spreadsheet
SpecSync == InitSync /\ [][NextSync]_vars

\* The technology lists of the sections of the form titled sectionTitle
SectionLists(items, sectionTitle) ==
    { [k \in 1..Len(items[i + 1].choices) |-> items[i + 1].choices[k].value] :
        i \in {j \in 1..(Len(items) - 1) :
                  /\ items[j].type = "PAGE_BREAK"
                  /\ items[j].title = sectionTitle
                  /\ items[j + 1].type = "CHECKBOX"} }

\* The trimmed non-empty column-A entries of a tab
ColumnAEntries(ss, sheetName) ==
    LET col == FirstColumn(GetSheetByName(ss, sheetName)[1])
        kept == SelectSeq(col, LAMBDA v : Trim(v) # <<>>)
    IN  [i \in 1..Len(kept) |-> Trim(kept[i])]

\* C22: after syncFormFromSheets completes, every provider whose tab
\* exists has in the form exactly one technology section, listing the
\* tab's current column-A entries, and no section at all when the tab has
\* no entry.
C22_SyncedSectionsMatchSheets ==
    [][(SyncFormFromSheets /\ lastInit'.completed) =>
          \A i \in 1..Len(SyncProviders) :
              GetSheetByName(sheets, SyncProviders[i].sheet) # <<>> =>
                  SectionLists(form', SyncProviders[i].sectionTitle) =
                      (IF ColumnAEntries(sheets, SyncProviders[i].sheet) = <<>>
                       THEN {}
                       ELSE {ColumnAEntries(sheets, SyncProviders[i].sheet)})]_vars


\* How often v occurs in the list
CountIn(list, v) == Cardinality({i \in 1..Len(list) : list[i] = v})

\* The two lists hold the same values the same number of times
SameMultiset(a, b) ==
    \A v \in {a[i] : i \in 1..Len(a)} \cup {b[i] : i \in 1..Len(b)} :
        CountIn(a, v) = CountIn(b, v)

\* Some provider's sheet list and form section list differ as multisets
SomeProviderDiffers(ss, items) ==
    \E i \in 1..Len(SyncProviders) :
        ~SameMultiset(ReadTechnologiesFromSheetSync(ss, SyncProviders[i].sheet),
                      GetExistingTechnologies(items, SyncProviders[i].sectionTitle))

\* A step of smartSyncFormFromSheets
SmartSyncStep == builds' = builds + 1 /\ lastInit'.smart

\* C28 as stated: smartSyncFormFromSheets runs syncFormFromSheets exactly
\* when some provider's two lists differ as multisets, and leaves every
\* item of the form unchanged when none differs.
C28_SyncExactlyWhenListsDiffer ==
    [][SmartSyncStep =>
          /\ (lastInit'.syncs >= 1) <=> SomeProviderDiffers(sheets, form)
          /\ ~SomeProviderDiffers(sheets, form) => form' = form]_vars

\* C28 amended: smartSyncFormFromSheets runs syncFormFromSheets exactly
\* when some provider's two lists differ as multisets or an error reaches
\* its catch; when no list differs and nothing is thrown, every item of the
\* form is unchanged.
C28_SyncWhenListsDifferOrThrown ==
    [][SmartSyncStep =>
          /\ (lastInit'.syncs >= 1) <=>
                 (SomeProviderDiffers(sheets, form) \/ lastInit'.thrown)
          /\ (~SomeProviderDiffers(sheets, form) /\ ~lastInit'.thrown) =>
                 form' = form]_vars

\* smartSyncFormFromSheets has run without any sync over a sheet list that
\* is the form's list in another order
C28_Witness ==
    /\ lastInit.smart /\ lastInit.syncs = 0 /\ ~lastInit.thrown
    /\ \E i \in 1..Len(SyncProviders) :
           /\ ReadTechnologiesFromSheetSync(sheets, SyncProviders[i].sheet) #
                  GetExistingTechnologies(form, SyncProviders[i].sectionTitle)
           /\ ~SomeProviderDiffers(sheets, form)

---------------------------------------------------------------------------
(* The output tab over a sequence of submissions *)

MaxQueued == 2

\* The responses of the sequences: no answer at all, one provider with its
\* technologies, two providers
SinkResponses ==
    LET P(title, answer) == [title |-> title, answer |-> answer]
    IN  { [email |-> <<"lead">>, items |-> <<>>],
          [email |-> <<"lead">>,
           items |-> << P(TitleFullName, Str(<<"Ann">>)),
                        P(TitleChoose, Str(NameAWS)),
                        P(TechQuestionTitle(NameAWS), Arr(<< <<"EC2">>, <<"S3">> >>)) >>],
          [email |-> <<>>,
           items |-> << P(TitleChoose, Str(NameAWS)),
                        P(TitleNext, Str(NameAzure)),
                        P(TechQuestionTitle(NameAzure), Arr(<< <<"VM">> >>)) >>] }

InitSink ==
    /\ sheets = <<MkTab(NameAWS, ItemsColumn(NameAWS))>>
    /\ form = <<>>
    /\ builds = 0
    /\ lastInit = NoInit
    /\ walk = IdleWalk
    /\ pending \in SeqsUpTo(SinkResponses, MaxQueued)
    /\ submits = 1
    /\ lastSubmit = NoSubmit

NextSink == OnFormSubmitV5AnyFault

\* Submission events handled one after the other, the output tab absent
\* at first
SpecSink == InitSink /\ [][NextSink]_vars

\* The row holds the captions of the header; the first cell of a data row
\* is a timestamp and never a caption, so the other seven cells decide
IsHeaderRow(row) == Tail(row) = Tail(HeaderRow)

C24_AppendOnly ==
    [][/\ IsPrefix(OutputRows(sheets), OutputRows(sheets'))
       /\ \A i \in 1..Len(sheets) : sheets[i].name # OutputTabName =>
              (i <= Len(sheets') /\ sheets'[i] = sheets[i])]_vars

\* A submission of two rows on a tab that held the rows of an earlier one
C24_Witness ==
    /\ lastSubmit.ran /\ lastSubmit.dataBefore >= 1
    /\ Len(WrittenRows) = 2
    /\ pending = <<>>

---------------------------------------------------------------------------
(* Properties of the catalog the form is built from *)

\* The providers offered by the choices of the provider-select question
\* and of the "Next step" questions of the form
ProvidersOffered(items) ==
    UNION { {items[i].choices[k].value : k \in 1..Len(items[i].choices)} :
              i \in {j \in 1..Len(items) : items[j].title \in {TitleChoose, TitleNext}} }
    \ {GoToSubmit}

\* The tabs of the spreadsheet without any non-blank cell in column A
BlankTabs(ss) ==
    {ss[i].name : i \in {j \in 1..Len(ss) : NonBlankCells(FirstColumn(ss[j])) = <<>>}}

\* C26: after every build, failed or not, every provider offered by a
\* choice of the provider-select question or of a "Next step" question has
\* a technology page whose multi-select lists at least one item; a tab
\* without any non-blank cell in column A has neither a page nor a choice.
C26_OnlyProvidersWithItems ==
    lastInit.ran =>
        /\ \A p \in ProvidersOffered(form) :
              \E i \in PagesTitled(form, TechPageTitle(p)) :
                  /\ i < Len(form)
                  /\ form[i + 1].type = "CHECKBOX"
                  /\ Len(form[i + 1].choices) >= 1
        /\ \A n \in BlankTabs(sheets) :
              /\ PagesTitled(form, TechPageTitle(n)) = {}
              /\ n \notin ProvidersOffered(form)

\* A build from a spreadsheet with a tab of blank cells next to a provider
C26_Witness ==
    /\ StructureBuilt(lastInit)
    /\ BlankTabs(sheets) # {}
    /\ ProvidersOffered(form) # {}
    /\ lastInit.fault.load = {}


\* The titles of the pages a choice may lead to: the technology pages of
\* the providers of the catalog and the final page
TargetTitles(data) ==
    {TechPageTitle(data[i].name) : i \in 1..Len(data)} \cup {FinalPageTitle}

\* C27 (the claim as stated; the code violates it): after every build,
\* every choice of the provider-select question and of the "Next step"
\* questions has a target, and the target is a page of the form: the
\* technology page of a provider or the final page.
C27_ChoicesTargetExistingPages ==
    lastInit.ran =>
        \A i \in 1..Len(form) :
            form[i].title \in {TitleChoose, TitleNext} =>
                \A k \in 1..Len(form[i].choices) :
                    /\ form[i].choices[k].target # NullItem
                    /\ HasItem(form, form[i].choices[k].target)
                    /\ ItemOf(form, form[i].choices[k].target).type = "PAGE_BREAK"
                    /\ ItemOf(form, form[i].choices[k].target).title
                           \in TargetTitles(lastInit.cloudData)

---------------------------------------------------------------------------
(* The output tab and the catalog *)

\* The trimmed non-blank cells of column A of the output tab
OutputColumnA(ss) ==
    IF ~HasTab(ss, OutputTabName) THEN {}
    ELSE LET cells == NonBlankCells(FirstColumn(GetSheetByName(ss, OutputTabName)[1]))
         IN  {Trim(cells[i]) : i \in 1..Len(cells)}

\* C29: in every state of the life of a form, after any submissions and
\* rebuilds, the tab V5_Responses is no provider tab: no run listed it as
\* a provider or loaded technologies from it, the form has no page, no
\* choice and no technology question for it, and no multi-select lists a
\* cell of its column A.
C29_OutputTabNeverProvider ==
    /\ OutputTabName \notin Range(ProviderTabs(sheets))
    /\ OutputTabName \notin Range(lastInit.cloudProviders)
    /\ OutputTabName \notin Range(Keys(lastInit.cloudData))
    /\ PagesTitled(form, TechPageTitle(OutputTabName)) = {}
    /\ OutputTabName \notin ProvidersOffered(form)
    /\ \A i \in 1..Len(form) :
          /\ form[i].title # TechQuestionTitle(OutputTabName)
          /\ form[i].type = "CHECKBOX" =>
                 \A k \in 1..Len(form[i].choices) :
                     form[i].choices[k].value \notin OutputColumnA(sheets)

\* The form was rebuilt and a submission has left its rows in the output
\* tab
C29_Witness ==
    /\ builds = 2 /\ lastInit.success
    /\ lastSubmit.ran
    /\ Len(DataRows(sheets)) >= 1
    /\ form # <<>>

---------------------------------------------------------------------------
(* The rows of a response and its visited providers *)

\* The providers a response may record items under
ProvidersAnswered(e) ==
    {p \in {NameAWS, NameAzure, NameGCP} : ItemsRecorded(e, p) # <<>>}

\* Every row names a provider of the deduplicated visited list
RowsNameVisited(rows, visited) ==
    \A i \in 1..Len(rows) : rows[i][4] \in Range(visited)

\* The items recorded under providers that were not visited have no row
\* and are in no row's item list
UnvisitedLeftOut(rows, e, visited) ==
    \A p \in ProvidersAnswered(e) \ Range(visited) :
        /\ RowsFor(rows, p) = {}
        /\ \A i \in 1..Len(rows) :
              \A k \in 1..Len(ItemsRecorded(e, p)) :
                  ~Includes(rows[i][6], ItemsRecorded(e, p)[k])

\* C30 (the claim as stated; the code violates it): for a response whose
\* deduplicated visited list is not empty, every row written names a
\* provider of that list, and the items recorded under a provider that is
\* not in the list have no row and are in no row's item list.
C30_RowsOnlyForVisited ==
    (Processed /\ ProvidersNamed(lastSubmit.e) # <<>>) =>
        /\ RowsNameVisited(WrittenRows, FirstSeen(ProvidersNamed(lastSubmit.e)))
        /\ UnvisitedLeftOut(WrittenRows, lastSubmit.e,
                            FirstSeen(ProvidersNamed(lastSubmit.e)))

=============================================================================
